---- MODULE Spec2Model ----
(***************************************************************************)
(* Conversation store, conversation manager and session manager of the     *)
(* RAG chat assistant (src/src/sqlite_manager.py,                          *)
(* src/src/conversation_management.py, src/src/session_management.py).     *)
(*                                                                         *)
(* Text values (message bodies, titles, rendered context) are sequences of *)
(* one-character strings, so that slicing and joining are computed.        *)
(* Python's None is the string "None"; a key that is missing from a        *)
(* dictionary is the string "Absent".                                      *)
(***************************************************************************)
EXTENDS Integers, Sequences, FiniteSets, TLC

VARIABLES
    conversations,  \* table conversations: set of rows [id, user_id, title]
    messages,       \* table messages: sequence of rows in rowid (insertion) order
    cache,          \* cache[m]: ids of ConversationManager m's self.conversations
    pc,             \* pc[m]: the statement caller m is about to execute
    loc,            \* loc[m]: the local variables of caller m's running call
    ret,            \* the last completed call and what it returned
    sessions,       \* table sessions: set of rows [token, user_id, expires_at]
    ss,             \* st.session_state of the browser session
    cookies,        \* the cookie dictionary's "session_token" entry
    cmUser,         \* user_id of the session's ConversationManager
    now,            \* int(time.time())
    issued,         \* number of session tokens create_session has generated
    val,            \* a second tab of the same browser: its validate_sessions call
    users,          \* table users: set of rows [id, username, password_hash]
    question_cache, \* the question cache: its entries in insertion order
    cache_file,     \* question_cache.json: the entries last saved
    peer_cache      \* the question cache of another session's ConversationManager

vars == <<conversations, messages, cache, pc, loc, ret,
          sessions, ss, cookies, cmUser, now, issued, val, users, question_cache, cache_file, peer_cache>>
convVars == <<conversations, messages, cache, pc, loc>>
sessVars == <<sessions, ss, cookies, cmUser, now, issued, val>>

----------------------------------------------------------------------------
(* Bounds of the model *)

MaxMessages == 3
MaxSeqMessages == 2
MaxLimit == 1
MaxTokens == 2
MaxTicks == 4
MaxUsers == 3
MaxCache == 2

(* Program constants *)

TitleLen == 100
DefaultMaxMessages == 10
SESSION_TIMEOUT == 3600

None == "None"
Absent == "Absent"

(* Python truthiness of an identifier-like value: None and "" are falsy. *)
Truthy(v) == v # None /\ v # "" /\ v # Absent

----------------------------------------------------------------------------
(* Inputs *)

Managers == {"m1", "m2", "m3"}
(* m1 and m2 are two browser sessions of user u1, m3 is a session of u2. *)
UserOf(m) == IF m = "m3" THEN "u2" ELSE "u1"
SeqManagers == {"m1", "m3"}
ConcManagers == {"m1", "m2"}

ConvIds == {"X", "Y"}
Senders == {"user", "assistant"}

Hello == <<"H", "e", "l", "l", "o">>
LongBody == [i \in 1..(TitleLen + 1) |-> IF i <= TitleLen THEN "a" ELSE "b"]
Bodies == {<< >>, Hello, LongBody}
ConcBodies == {Hello, LongBody}

Min(a, b) == IF a <= b THEN a ELSE b

(* Python s[:n] for n >= 0 *)
Take(s, n) == SubSeq(s, 1, Min(n, Len(s)))

(* Python s[-n:] for n >= 0; s[-0:] is s[0:], the whole sequence *)
LastSlice(s, n) == IF n = 0 THEN s ELSE SubSeq(s, Len(s) - Min(n, Len(s)) + 1, Len(s))

----------------------------------------------------------------------------
(* SQLiteManager: conversations and messages *)

(* SELECT COALESCE(MAX(position), 0) FROM messages WHERE conversation_id = ? *)
MaxPositionAll(cid) ==
    LET ps == {messages[i].position : i \in 1..Len(messages)}
    IN  IF ps = {} THEN 0 ELSE CHOOSE p \in ps : \A q \in ps : q <= p

MaxPosition(cid) ==
    LET ps == {messages[i].position :
                 i \in {j \in 1..Len(messages) : messages[j].conversation_id = cid}}
    IN  IF ps = {} THEN 0 ELSE CHOOSE p \in ps : \A q \in ps : q <= p

(* new_position = last_position + 1 *)
NewPosition(last) == last + 1

(* The row add_message inserts. *)
MessageRow(cid, position, sender, body) ==
    [conversation_id |-> cid, position |-> position, sender |-> sender, message |-> body]

(* Rows of a conversation in rowid order. *)
RECURSIVE RowsOf(_, _)
RowsOf(seq, cid) ==
    IF seq = << >> THEN << >>
    ELSE IF Head(seq).conversation_id = cid
         THEN <<Head(seq)>> \o RowsOf(Tail(seq), cid)
         ELSE RowsOf(Tail(seq), cid)

(* ORDER BY position ASC; rows of equal position stay in rowid order. *)
RECURSIVE InsertSorted(_, _)
InsertSorted(sorted, row) ==
    IF sorted = << >> THEN <<row>>
    ELSE IF Head(sorted).position <= row.position
         THEN <<Head(sorted)>> \o InsertSorted(Tail(sorted), row)
         ELSE <<row>> \o sorted

RECURSIVE OrderByPosition(_)
OrderByPosition(seq) ==
    IF seq = << >> THEN << >>
    ELSE InsertSorted(OrderByPosition(SubSeq(seq, 1, Len(seq) - 1)), seq[Len(seq)])

(* get_all_messages_from_conversation: SELECT sender, message ... ORDER BY
   position ASC (created_at, the third column, is not followed) *)
ListMessagesOf(msgs, cid) ==
    [i \in 1..Len(RowsOf(msgs, cid)) |->
        [sender |-> OrderByPosition(RowsOf(msgs, cid))[i].sender,
         message |-> OrderByPosition(RowsOf(msgs, cid))[i].message]]
ListMessages(cid) == ListMessagesOf(messages, cid)

(* get_all_conversations_of_user: the ids of the rows it returns from table tbl *)
ListingUnfiltered(tbl, user_id) == {c.id : c \in tbl}

ListingIn(tbl, user_id) ==
    IF Truthy(user_id)
    THEN {c.id : c \in {r \in tbl : r.user_id = user_id}}
    ELSE {c.id : c \in tbl}

(* get_conversation_of_user: the set of rows (at most one) it returns;
   the WHERE clause names the id only. *)
ConversationOfUser(cid, user_id) ==
    IF Truthy(cid) /\ Truthy(user_id)
    THEN {c \in conversations : c.id = cid}
    ELSE {}

(* create_conversation: the table afterwards.  id is the PRIMARY KEY: an
   INSERT of an id that is present raises and leaves the table as it is. *)
CreateConversationAlways(cid, title, user_id) ==
    {c \in conversations : c.id # cid}
        \cup {[id |-> cid, user_id |-> user_id, title |-> title]}

CreateConversation(cid, title, user_id) ==
    IF ConversationOfUser(cid, user_id) = {} /\ ~(\E c \in conversations : c.id = cid)
    THEN conversations \cup {[id |-> cid, user_id |-> user_id, title |-> title]}
    ELSE conversations

(* update_title: the table afterwards *)
UpdateTitle(cid, title) ==
    IF Truthy(cid)
    THEN {IF c.id = cid THEN [c EXCEPT !.title = title] ELSE c : c \in conversations}
    ELSE conversations

----------------------------------------------------------------------------
(* ConversationManager *)

Idle == [cid |-> None, sender |-> None, body |-> << >>, last |-> 0, manager |-> FALSE]

OthersIdle(m) == \A q \in Managers \ {m} : pc[q] = "idle"

(* Calls that have yet to insert their message. *)
InFlight == Cardinality({m \in Managers : pc[m] \in {"read", "insert"}})

(* uuid4: a generated id is one no conversation row holds *)
GeneratedIds == {c \in ConvIds : ~(\E r \in conversations : r.id = c)}

(* create_conversation_thread: the table afterwards *)
ThreadTable(m, cid) ==
    IF Truthy(UserOf(m)) /\ cid \notin cache[m]
    THEN CreateConversation(cid, << >>, UserOf(m))
    ELSE conversations

(* create_conversation_thread(conversation_id); arg = None generates the id *)
CreateThread(m, arg) ==
    /\ pc[m] = "idle"
    /\ \E cid \in (IF arg = None THEN GeneratedIds ELSE {arg}) :
         /\ conversations' = ThreadTable(m, cid)
         /\ cache' = [cache EXCEPT ![m] = ListingIn(conversations', UserOf(m))]
         /\ ret' = [op |-> "create_thread", m |-> m, arg |-> arg, result |-> cid]
    /\ UNCHANGED <<messages, pc, loc, sessVars, users, question_cache, cache_file, peer_cache>>

(* add_message, lines 110-111: auto-create the thread, then call db.add_message *)
AddMessageStart(m, cid, sender, body) ==
    /\ pc[m] = "idle"
    /\ IF cid \notin cache[m]
       THEN /\ conversations' = ThreadTable(m, cid)
            /\ cache' = [cache EXCEPT ![m] = ListingIn(conversations', UserOf(m))]
       ELSE UNCHANGED <<conversations, cache>>
    /\ pc' = [pc EXCEPT ![m] = "read"]
    /\ loc' = [loc EXCEPT ![m] = [cid |-> cid, sender |-> sender, body |-> body,
                                  last |-> 0, manager |-> TRUE,
                                  created |-> cid \notin cache[m],
                                  unbound |-> FALSE, caught |-> None]]
    /\ UNCHANGED <<messages, ret, sessVars, users, question_cache, cache_file, peer_cache>>

(* SQLiteManager.add_message called on the store itself *)
DbAddMessageStart(m, cid, sender, body) ==
    /\ pc[m] = "idle"
    /\ pc' = [pc EXCEPT ![m] = "read"]
    /\ loc' = [loc EXCEPT ![m] = [cid |-> cid, sender |-> sender, body |-> body,
                                  last |-> 0, manager |-> FALSE,
                                  created |-> FALSE,
                                  unbound |-> FALSE, caught |-> None]]
    /\ UNCHANGED <<conversations, messages, cache, ret, sessVars, users, question_cache, cache_file, peer_cache>>

(* SQLiteManager.add_message, lines 186-190: read the last position *)
ReadMax(m) ==
    /\ pc[m] = "read"
    /\ loc' = [loc EXCEPT ![m].last = MaxPosition(loc[m].cid)]
    /\ pc' = [pc EXCEPT ![m] = "insert"]
    /\ UNCHANGED <<conversations, messages, cache, ret, sessVars, users, question_cache, cache_file, peer_cache>>

(* SQLiteManager.add_message, lines 192-200: insert at last + 1 and return it;
   an assistant message leaves add_message nothing but the refresh and return *)
Insert(m) ==
    /\ pc[m] = "insert"
    /\ loc[m].sender \in Senders
    /\ messages' = Append(messages, MessageRow(loc[m].cid, NewPosition(loc[m].last),
                                               loc[m].sender, loc[m].body))
    /\ IF loc[m].manager /\ loc[m].sender = "user"
       THEN /\ pc' = [pc EXCEPT ![m] = "check"]
            /\ loc' = [loc EXCEPT ![m].last = NewPosition(loc[m].last)]
            /\ UNCHANGED <<cache, ret>>
       ELSE /\ pc' = [pc EXCEPT ![m] = "idle"]
            /\ loc' = [loc EXCEPT ![m] = Idle]
            /\ cache' = IF loc[m].manager
                        THEN [cache EXCEPT ![m] = ListingIn(conversations, UserOf(m))]
                        ELSE cache
            /\ ret' = [op |-> IF loc[m].manager THEN "add_message" ELSE "db_add_message",
                       m |-> m, cid |-> loc[m].cid, result |-> NewPosition(loc[m].last)]
    /\ UNCHANGED <<conversations, sessVars, users, question_cache, cache_file, peer_cache>>

(* The error the store's INSERT raises: a sender outside ('user','assistant')
   violates the CHECK constraint, any other insert can fail on the connection
   (database locked, disk error). *)
StoreError(m) ==
    IF loc[m].sender \in Senders THEN "OperationalError" ELSE "IntegrityError"

(* SQLiteManager.add_message, lines 192-198, when the INSERT raises: the store
   call propagates it; the manager's try/except (lines 114-118) logs it and
   goes on with `position` never assigned. *)
InsertRaises(m) ==
    /\ pc[m] = "insert"
    /\ IF loc[m].manager /\ loc[m].sender = "user"
       THEN /\ pc' = [pc EXCEPT ![m] = "check"]
            /\ loc' = [loc EXCEPT ![m].unbound = TRUE, ![m].caught = StoreError(m)]
            /\ UNCHANGED <<cache, ret>>
       ELSE /\ pc' = [pc EXCEPT ![m] = "idle"]
            /\ loc' = [loc EXCEPT ![m] = Idle]
            /\ cache' = IF loc[m].manager
                        THEN [cache EXCEPT ![m] = ListingIn(conversations, UserOf(m))]
                        ELSE cache
            /\ ret' = IF loc[m].manager
                      THEN [op |-> "add_message", m |-> m, cid |-> loc[m].cid,
                            raised |-> "UnboundLocalError", caught |-> StoreError(m)]
                      ELSE [op |-> "db_add_message", m |-> m, cid |-> loc[m].cid,
                            raised |-> StoreError(m), caught |-> StoreError(m)]
    /\ UNCHANGED <<conversations, messages, sessVars, users, question_cache, cache_file, peer_cache>>

(* add_message, line 129: `return position`; the name is unbound when the
   store call raised *)
AddMessageReturn(m) ==
    IF loc[m].unbound
    THEN [op |-> "add_message", m |-> m, cid |-> loc[m].cid,
          raised |-> "UnboundLocalError", caught |-> loc[m].caught]
    ELSE [op |-> "add_message", m |-> m, cid |-> loc[m].cid, result |-> loc[m].last]

(* Does add_message, lines 122-123, find a conversation without a title? *)
TitleMissing(m) ==
    \E convo \in ConversationOfUser(loc[m].cid, UserOf(m)) : convo.title = << >>

(* add_message, lines 121-123: look the conversation up and test its title *)
CheckTitle(m) ==
    /\ pc[m] = "check"
    /\ IF TitleMissing(m)
       THEN /\ pc' = [pc EXCEPT ![m] = "write"]
            /\ UNCHANGED <<loc, cache, ret>>
       ELSE /\ pc' = [pc EXCEPT ![m] = "idle"]
            /\ loc' = [loc EXCEPT ![m] = Idle]
            /\ cache' = [cache EXCEPT ![m] = ListingIn(conversations, UserOf(m))]
            /\ ret' = AddMessageReturn(m)
    /\ UNCHANGED <<conversations, messages, sessVars, users, question_cache, cache_file, peer_cache>>

(* add_message, lines 124-129: write the title, refresh the listing, return *)
WriteTitle(m) ==
    /\ pc[m] = "write"
    /\ conversations' = UpdateTitle(loc[m].cid, Take(loc[m].body, TitleLen))
    /\ cache' = [cache EXCEPT ![m] = ListingIn(conversations', UserOf(m))]
    /\ pc' = [pc EXCEPT ![m] = "idle"]
    /\ loc' = [loc EXCEPT ![m] = Idle]
    /\ ret' = AddMessageReturn(m)
    /\ UNCHANGED <<messages, sessVars, users, question_cache, cache_file, peer_cache>>

(* get_conversation_history: what it returns *)
History(m, cid, max_messages) ==
    IF cid \notin ListingIn(conversations, UserOf(m))
    THEN << >>
    ELSE IF Len(ListMessages(cid)) <= max_messages
         THEN ListMessages(cid)
         ELSE LastSlice(ListMessages(cid), max_messages)

(* get_conversation_history(conversation_id, max_messages) *)
GetHistory(m, cid, limit) ==
    /\ pc[m] = "idle"
    /\ cache' = [cache EXCEPT ![m] = ListingIn(conversations, UserOf(m))]
    /\ ret' = [op |-> "get_history", m |-> m, cid |-> cid, limit |-> limit,
               result |-> History(m, cid, limit)]
    /\ UNCHANGED <<conversations, messages, pc, loc, sessVars, users, question_cache, cache_file, peer_cache>>

(* delete_conversation(conversation_id), lines 185-189: the rows of
   self.conversations have the keys id, title and created_at, so the test
   conv["conversation_id"] raises KeyError on the first row; with no row the
   test is false and nothing is done.  No path reaches db.delete_row. *)
DeleteConversation(m, cid) ==
    /\ pc[m] = "idle"
    /\ ret' = [op |-> "delete_conversation", m |-> m, cid |-> cid,
               raised |-> IF cache[m] # {} THEN "KeyError" ELSE None]
    /\ UNCHANGED <<convVars, sessVars, users, question_cache, cache_file, peer_cache>>

(* "\n".join(parts) *)
RECURSIVE JoinLines(_)
JoinLines(parts) ==
    IF parts = << >> THEN << >>
    ELSE IF Len(parts) = 1 THEN parts[1]
         ELSE parts[1] \o <<"\n">> \o JoinLines(Tail(parts))

(* f"{role}: {msg['message']}" *)
ContextLine(msg) ==
    (IF msg.sender = "user"
     THEN <<"U", "s", "e", "r">>
     ELSE <<"A", "s", "s", "i", "s", "t", "a", "n", "t">>)
        \o <<":", " ">> \o msg.message

(* get_thread_context: what it returns *)
ThreadContext(m, cid) ==
    LET history == History(m, cid, DefaultMaxMessages)
    IN  IF history = << >> THEN << >>
        ELSE JoinLines([i \in 1..Len(history) |-> ContextLine(history[i])])

(* get_thread_context(conversation_id) *)
GetContext(m, cid) ==
    /\ pc[m] = "idle"
    /\ cache' = [cache EXCEPT ![m] = ListingIn(conversations, UserOf(m))]
    /\ ret' = [op |-> "get_context", m |-> m, cid |-> cid,
               result |-> ThreadContext(m, cid)]
    /\ UNCHANGED <<conversations, messages, pc, loc, sessVars, users, question_cache, cache_file, peer_cache>>

----------------------------------------------------------------------------
(* SQLiteManager: users *)

Usernames == {"alice", "bob"}
Passwords == {"pw1", "pw2"}
UserIds == <<"u1", "u2", "u3", "u4", "u5">>

(* hash_password: the stored hash verifies exactly the password it was made of *)
HashPassword(password) == <<"bcrypt", password>>

(* bcrypt.checkpw(provided_password_bytes, stored_hash) *)
CheckPw(password, stored_hash) == stored_hash = HashPassword(password)

(* SELECT ... FROM users WHERE username = ? *)
SelectUser(username) == {r \in users : r.username = username}

(* get_user_credentials: the set holding the record it returns, empty for None *)
GetUserCredentialsAnyPassword(username, password) ==
    IF username = "" \/ password = ""
    THEN {}
    ELSE {[id |-> r.id, username |-> r.username] : r \in SelectUser(username)}

GetUserCredentials(username, password) ==
    IF username = "" \/ password = ""
    THEN {}
    ELSE {[id |-> r.id, username |-> r.username] :
            r \in {q \in SelectUser(username) : CheckPw(password, q.password_hash)}}

(* INSERT INTO users: username is UNIQUE, a second row with the same username
   raises IntegrityError and the table stays as it was *)
InsertUserNoUnique(tbl, row) == tbl \cup {row}

InsertUser(tbl, row) ==
    IF \E r \in tbl : r.username = row.username THEN tbl ELSE tbl \cup {row}

(* f"USR_{uuid.uuid4().hex[:12]}": an id no row holds *)
NewUserId == UserIds[Cardinality(users) + 1]

(* create_new_user calls that have passed the existence check *)
InFlightUsers == Cardinality({m \in Managers : pc[m] = "cu_insert"})

(* create_new_user, lines 320-333: the argument and existence checks *)
CreateNewUserStart(m, username, password) ==
    /\ pc[m] = "idle"
    /\ IF username = "" \/ password = "" \/ SelectUser(username) # {}
       THEN /\ ret' = [op |-> "create_new_user", m |-> m, username |-> username,
                       stage |-> "check", result |-> None]
            /\ UNCHANGED <<pc, loc>>
       ELSE /\ pc' = [pc EXCEPT ![m] = "cu_insert"]
            /\ loc' = [loc EXCEPT ![m] = [username |-> username, password |-> password]]
            /\ ret' = ret
    /\ UNCHANGED <<conversations, messages, cache, sessVars, users, question_cache, cache_file, peer_cache>>

(* create_new_user, lines 336-357: hash, insert, return the new user or None *)
CreateNewUserInsert(m) ==
    /\ pc[m] = "cu_insert"
    /\ users' = InsertUser(users, [id |-> NewUserId, username |-> loc[m].username,
                                   password_hash |-> HashPassword(loc[m].password)])
    /\ ret' = [op |-> "create_new_user", m |-> m, username |-> loc[m].username,
               stage |-> "insert",
               result |-> IF users' = users THEN None ELSE NewUserId]
    /\ pc' = [pc EXCEPT ![m] = "idle"]
    /\ loc' = [loc EXCEPT ![m] = Idle]
    /\ UNCHANGED <<conversations, messages, cache, sessVars, question_cache, cache_file, peer_cache>>

----------------------------------------------------------------------------
(* SQLiteManager: sessions *)

TokenNames == <<"t1", "t2", "t3", "t4">>
Tokens == {TokenNames[i] : i \in 1..MaxTokens}

(* create_session(user_id): the row it inserts; the token is a fresh one *)
NewSessionRow(user_id) ==
    [token |-> TokenNames[issued + 1], user_id |-> user_id,
     expires_at |-> now + SESSION_TIMEOUT]

(* find_valid_session_by_token: the set of rows (at most one) it returns *)
FindSession(token) == {r \in sessions : r.token = token}

(* update_session_expiry: the table afterwards *)
UpdateSessionExpiry(tbl, token, new_expires) ==
    {IF r.token = token THEN [r EXCEPT !.expires_at = new_expires] ELSE r : r \in tbl}

(* delete_session: the table afterwards *)
DeleteSession(tbl, token) == {r \in tbl : r.token # token}

----------------------------------------------------------------------------
(* SessionManager *)

(* The users a credential check can return. *)
Statuses == {[id |-> "u1", username |-> "alice"], [id |-> "u2", username |-> "bob"]}

EmptyDict == [k \in {} |-> None]

(* _initialize_sessions: the defaults of the keys this model follows.  The
   conversation manager is kept by the name of its class; an optional text is
   kept as a set, empty for None, and selected_response_idx None as 0. *)
Defaults ==
    [session_token |-> None, user_id |-> None, current_user |-> None,
     messages |-> << >>, current_thread_id |-> None, pasted_image |-> FALSE,
     regenerate_response |-> FALSE, is_processing |-> FALSE, authenticated |-> FALSE,
     conversation_manager |-> "conversation_management", use_cache |-> TRUE,
     pending_inquiry |-> EmptyDict, current_suggestions |-> EmptyDict,
     selected_response_idx |-> 0, selected_response |-> {}]

(* _initialize_sessions without the test of "_initialized" *)
InitializeSessionsAlways(s) ==
    [k \in DOMAIN Defaults \cup DOMAIN s \cup {"_initialized"} |->
        IF k = "_initialized" THEN TRUE
        ELSE IF k \in DOMAIN s THEN s[k] ELSE Defaults[k]]

(* _initialize_sessions applied to session state s *)
InitializeSessions(s) ==
    IF "_initialized" \in DOMAIN s /\ s["_initialized"]
    THEN s
    ELSE [k \in DOMAIN Defaults \cup DOMAIN s \cup {"_initialized"} |->
            IF k = "_initialized" THEN TRUE
            ELSE IF k \in DOMAIN s THEN s[k] ELSE Defaults[k]]

(* SessionManager.get(key): st.session_state.get(key, None) *)
Get(s, key) == IF key \in DOMAIN s THEN s[key] ELSE None

(* SessionManager.set(key, value) *)
Set(s, key, value) == [k \in DOMAIN s \cup {key} |-> IF k = key THEN value ELSE s[k]]

(* del d[key] of a key that is present *)
Del(s, key) == [k \in DOMAIN s \ {key} |-> s[k]]


(* _refresh_session: the sessions table afterwards *)
RefreshSessionStale(token) == UpdateSessionExpiry(sessions, token, SESSION_TIMEOUT)

RefreshSession(token) == UpdateSessionExpiry(sessions, token, now + SESSION_TIMEOUT)

(* validate_sessions, line 191: row and int(time.time()) < row["expires_at"] *)
SessionLive(token) == \E row \in FindSession(token) : now < row.expires_at

(* write_cookie_once: the cookies afterwards *)
WriteCookieOnce(token) == Set(cookies, "session_token", token)

(* delete_cookie: the cookies afterwards *)
DeleteCookie ==
    IF Truthy(Get(cookies, "session_token"))
    THEN Set(cookies, "session_token", "")
    ELSE cookies

(* logged_in(status) *)
LoggedIn(status) ==
    /\ issued < MaxTokens
    /\ sessions' = sessions \cup {NewSessionRow(status.id)}
    /\ issued' = issued + 1
    /\ cmUser' = status.id
    /\ ss' = Set(Set(Set(Set(ss, "authenticated", TRUE), "user_id", status.id),
                     "current_user", status.username),
                 "session_token", TokenNames[issued + 1])
    /\ cookies' = WriteCookieOnce(TokenNames[issued + 1])
    /\ ret' = [op |-> "logged_in", token |-> TokenNames[issued + 1],
               result |-> "None", at |-> now]
    /\ UNCHANGED <<convVars, users, question_cache, cache_file, peer_cache, now, val>>

(* login(username, password): the credential check of the store, and
   logged_in(status) when it returned a user *)
Login(username, password) ==
    IF GetUserCredentials(username, password) = {}
    THEN /\ ret' = [op |-> "login", username |-> username, token |-> None,
                    result |-> None, at |-> now]
         /\ UNCHANGED <<convVars, sessVars, users, question_cache, cache_file, peer_cache>>
    ELSE \E status \in GetUserCredentials(username, password) : LoggedIn(status)

(* logout_current_session: deletes the session of the token held in memory,
   then clears the two keys; clearing a key that is missing raises KeyError
   and abandons the rest. *)
LogoutCurrentSession ==
    /\ sessions' = IF Truthy(Get(ss, "session_token"))
                   THEN DeleteSession(sessions, Get(ss, "session_token"))
                   ELSE sessions
    /\ IF "session_token" \notin DOMAIN ss
       THEN /\ ss' = ss
            /\ cookies' = cookies
       ELSE IF "user_id" \notin DOMAIN ss
       THEN /\ ss' = Del(ss, "session_token")
            /\ cookies' = cookies
       ELSE /\ ss' = Del(Del(ss, "session_token"), "user_id")
            /\ cookies' = Del(cookies, "session_token")

LogoutRaises == "session_token" \notin DOMAIN ss \/ "user_id" \notin DOMAIN ss

(* validate_sessions(token) *)
ValidateSessions(token) ==
    /\ IF ~Truthy(token)
       THEN /\ UNCHANGED <<sessions, ss, cookies>>
            /\ ret' = [op |-> "validate", token |-> token, result |-> "None", at |-> now]
       ELSE IF SessionLive(token)
       THEN /\ sessions' = RefreshSession(token)
            /\ cookies' = Set(cookies, "session_token", token)
            /\ ss' = Set(ss, "user_id", (CHOOSE row \in FindSession(token) : TRUE).user_id)
            /\ ret' = [op |-> "validate", token |-> token, result |-> "True", at |-> now]
       ELSE /\ LogoutCurrentSession
            /\ ret' = [op |-> "validate", token |-> token, at |-> now,
                       result |-> IF LogoutRaises THEN "KeyError" ELSE "False"]
    /\ UNCHANGED <<convVars, users, question_cache, cache_file, peer_cache, cmUser, now, issued, val>>

(* logged_out: the keys it deletes after the token and the user id; the list's
   first two strings are written without a comma between them *)
KeysToClear ==
    {"authenticatedmessages", "documents", "current_thread_id", "pasted_image",
     "regenerate_response", "is_processing", "valid_session"}

(* logged_out() *)
LoggedOut ==
    /\ cookies' = DeleteCookie
    /\ sessions' = DeleteSession(sessions, Get(ss, "session_token"))
    /\ ss' = InitializeSessions(
               [k \in DOMAIN ss \ (KeysToClear
                     \cup (IF Truthy(Get(ss, "session_token")) THEN {"session_token"} ELSE {})
                     \cup (IF Truthy(Get(ss, "user_id")) THEN {"user_id"} ELSE {}))
                  |-> ss[k]])
    /\ ret' = [op |-> "logged_out", token |-> Get(ss, "session_token"),
               result |-> "None", at |-> now]
    /\ UNCHANGED <<convVars, users, question_cache, cache_file, peer_cache, cmUser, now, issued, val>>

(* A page reload: the browser keeps its cookies, Streamlit starts the script
   on an empty st.session_state and SessionManager.__init__ fills it in. *)
Reload ==
    /\ ss' = InitializeSessions(EmptyDict)
    /\ cmUser' = None
    /\ ret' = [op |-> "reload", token |-> None, result |-> "None", at |-> now]
    /\ UNCHANGED <<convVars, users, question_cache, cache_file, peer_cache, sessions, cookies, now, issued, val>>

(* The clock advances by half a session timeout. *)
TickStep == SESSION_TIMEOUT \div 2

Tick ==
    /\ now < MaxTicks * TickStep
    /\ now' = now + TickStep
    /\ UNCHANGED <<convVars, users, question_cache, cache_file, peer_cache, ret, sessions, ss, cookies, cmUser, issued, val>>

----------------------------------------------------------------------------
(* validate_sessions statement by statement, run by a second tab of the same
   browser.  The tab has its own st.session_state, of which val keeps the two
   keys the call touches (the tab never logs in, so its session_token is None
   while the key exists), and it shares the browser's cookies. *)

ValIdle ==
    [pc |-> "idle", token |-> None, row |-> {}, has_token |-> TRUE,
     user_id |-> None, result |-> None]

(* line 190: row = find_valid_session_by_token(token) *)
ValFind(token) ==
    /\ val.pc = "idle"
    /\ Truthy(token)
    /\ val' = [val EXCEPT !.pc = "found", !.token = token,
                          !.row = FindSession(token), !.result = None]
    /\ UNCHANGED <<convVars, users, question_cache, cache_file, peer_cache, ret, sessions, ss, cookies, cmUser, now, issued>>

(* line 191: row and int(time.time()) < row["expires_at"], on the row read *)
ValCompare ==
    /\ val.pc = "found"
    /\ val' = [val EXCEPT !.pc = IF \E row \in val.row : now < row.expires_at
                                 THEN "refresh" ELSE "reject"]
    /\ UNCHANGED <<convVars, users, question_cache, cache_file, peer_cache, ret, sessions, ss, cookies, cmUser, now, issued>>

(* line 192: _refresh_session(token) *)
ValRefresh ==
    /\ val.pc = "refresh"
    /\ sessions' = RefreshSession(val.token)
    /\ val' = [val EXCEPT !.pc = "accept"]
    /\ UNCHANGED <<convVars, users, question_cache, cache_file, peer_cache, ret, ss, cookies, cmUser, now, issued>>

(* lines 194-197: write the cookie, set user_id, return True *)
ValAccept ==
    /\ val.pc = "accept"
    /\ cookies' = Set(cookies, "session_token", val.token)
    /\ val' = [val EXCEPT !.pc = "idle", !.result = "True",
                          !.user_id = (CHOOSE row \in val.row : TRUE).user_id]
    /\ UNCHANGED <<convVars, users, question_cache, cache_file, peer_cache, ret, sessions, ss, cmUser, now, issued>>

(* lines 199-200: logout_current_session() of the tab, return False *)
ValReject ==
    /\ val.pc = "reject"
    /\ IF ~val.has_token
       THEN /\ val' = [val EXCEPT !.pc = "idle", !.result = "KeyError"]
            /\ cookies' = cookies
       ELSE IF val.user_id = Absent
       THEN /\ val' = [val EXCEPT !.pc = "idle", !.result = "KeyError",
                                  !.has_token = FALSE]
            /\ cookies' = cookies
       ELSE /\ val' = [val EXCEPT !.pc = "idle", !.result = "False",
                                  !.has_token = FALSE, !.user_id = Absent]
            /\ cookies' = Del(cookies, "session_token")
    /\ UNCHANGED <<convVars, users, question_cache, cache_file, peer_cache, ret, sessions, ss, cmUser, now, issued>>

----------------------------------------------------------------------------
(* The question cache (src/conversation_manager.py).  A similarity is the
   fraction <<numerator, denominator>>. *)

Questions ==
    {<< >>, <<"h", "i">>, <<"H", "i">>, <<" ", "h", "i">>, <<"h", "i", " ">>,
     <<"h", " ", "i">>, <<"H", "\t", " ", "I">>, <<"i", " ", "h">>}
(* The answers stored, each with the sources it was generated from. *)
Answered ==
    {[answer |-> "a1", source_documents |-> << >>],
     [answer |-> "a2", source_documents |-> <<"d1">>]}
DefaultThreshold == <<4, 5>>
Thresholds == {<<0, 1>>, DefaultThreshold, <<1, 1>>}

(* The questions of the return-policy example *)
ReturnPolicy ==
    <<"W", "h", "a", "t", " ", "i", "s", " ", "y", "o", "u", "r", " ", "r",
      "e", "t", "u", "r", "n", " ", "p", "o", "l", "i", "c", "y", "?">>
TheReturnPolicy ==
    <<"w", "h", "a", "t", " ", "i", "s", " ", "t", "h", "e", " ", "r", "e",
      "t", "u", "r", "n", " ", "p", "o", "l", "i", "c", "y">>
ShippingPolicy ==
    <<"W", "h", "a", "t", " ", "i", "s", " ", "y", "o", "u", "r", " ", "s",
      "h", "i", "p", "p", "i", "n", "g", " ", "p", "o", "l", "i", "c", "y",
      "?">>
ReturnPolicySpaced ==
    <<"w", "h", "a", "t", " ", " ", "i", "s", " ", "y", "o", "u", "r", " ",
      "r", "e", "t", "u", "r", "n", " ", "p", "o", "l", "i", "c", "y", "?">>
PolicyQuestions ==
    {ReturnPolicy, TheReturnPolicy, ShippingPolicy, ReturnPolicySpaced, <<"h", "i">>}
ThirtyDays == [answer |-> "30 days", source_documents |-> << >>]

IsSpace(c) == c \in {" ", "\t"}

(* str.strip() *)
Strip(s) ==
    LET inner == {i \in 1..Len(s) : ~IsSpace(s[i])}
    IN  IF inner = {} THEN << >>
        ELSE SubSeq(s, CHOOSE i \in inner : \A j \in inner : i <= j,
                       CHOOSE i \in inner : \A j \in inner : i >= j)

(* str.lower() *)
LowerOf == [H |-> "h", I |-> "i", W |-> "w"]

Lower(s) == [i \in 1..Len(s) |-> IF s[i] \in DOMAIN LowerOf THEN LowerOf[s[i]] ELSE s[i]]

(* str.split(): the maximal runs of non-whitespace characters *)
RECURSIVE SplitWords(_, _, _)
SplitWords(s, cur, acc) ==
    IF s = << >>
    THEN IF cur = << >> THEN acc ELSE Append(acc, cur)
    ELSE IF IsSpace(Head(s))
         THEN SplitWords(Tail(s), << >>, IF cur = << >> THEN acc ELSE Append(acc, cur))
         ELSE SplitWords(Tail(s), Append(cur, Head(s)), acc)

Split(s) == SplitWords(s, << >>, << >>)

(* " ".join(words) *)
RECURSIVE JoinWords(_)
JoinWords(ws) ==
    IF ws = << >> THEN << >>
    ELSE IF Len(ws) = 1 THEN ws[1]
    ELSE ws[1] \o <<" ">> \o JoinWords(Tail(ws))

(* _hash_question: md5 of the normalized question; the digest is taken to be
   free of collisions *)
HashQuestionRaw(question) == <<"md5", question>>

HashQuestion(question) == <<"md5", JoinWords(Split(Lower(question)))>>

(* set(question.lower().split()) *)
WordSet(question) == {Split(Lower(question))[i] : i \in 1..Len(Split(Lower(question)))}

(* Jaccard similarity of two word sets, the second one not empty *)
OverlapCoefficient(a, b) ==
    <<Cardinality(a \cap b), Min(Cardinality(a), Cardinality(b))>>

Jaccard(a, b) == <<Cardinality(a \cap b), Cardinality(a \cup b)>>

FracGreater(x, y) == x[1] * y[2] > y[1] * x[2]
FracAtLeast(x, y) == x[1] * y[2] >= y[1] * x[2]

(* The loop of find_similar_question with `similarity >= best_similarity`:
   the last entry of the greatest similarity wins *)
RECURSIVE BestMatchLast(_, _, _, _, _)
BestMatchLast(i, question, threshold, best, sim) ==
    IF i > Len(question_cache)
    THEN [best |-> best, sim |-> sim]
    ELSE LET cached_normalized == WordSet(question_cache[i].question)
             similarity == Jaccard(WordSet(question), cached_normalized)
         IN  IF cached_normalized # {} /\ similarity[1] > 0
                /\ FracAtLeast(similarity, sim) /\ FracAtLeast(similarity, threshold)
             THEN BestMatchLast(i + 1, question, threshold, i, similarity)
             ELSE BestMatchLast(i + 1, question, threshold, best, sim)

(* find_similar_question, lines 95-112: the loop over the cache from entry i
   on; best is the index of best_match (0 for None), sim is best_similarity *)
RECURSIVE BestMatch(_, _, _, _, _)
BestMatch(i, question, threshold, best, sim) ==
    IF i > Len(question_cache)
    THEN [best |-> best, sim |-> sim]
    ELSE LET cached_normalized == WordSet(question_cache[i].question)
             similarity == Jaccard(WordSet(question), cached_normalized)
         IN  IF cached_normalized # {}
                /\ FracGreater(similarity, sim) /\ FracAtLeast(similarity, threshold)
             THEN BestMatch(i + 1, question, threshold, i, similarity)
             ELSE BestMatch(i + 1, question, threshold, best, sim)

Hit(entry, similarity) ==
    [answer |-> entry.answer, source_documents |-> entry.source_documents,
     similarity |-> similarity, original_question |-> entry.question]

(* find_similar_question: the set holding what it returns, empty for None *)
FindSimilarQuestion(question, threshold) ==
    IF \E i \in 1..Len(question_cache) : question_cache[i].key = HashQuestion(question)
    THEN {Hit(question_cache[i], <<1, 1>>) :
            i \in {j \in 1..Len(question_cache) :
                      question_cache[j].key = HashQuestion(question)}}
    ELSE LET b == BestMatch(1, question, threshold, 0, <<0, 1>>)
         IN  IF b.best = 0 THEN {} ELSE {Hit(question_cache[b.best], b.sim)}

(* find_similar_question(question, threshold) *)
FindSimilar(question, threshold) ==
    /\ ret' = [op |-> "find_similar", question |-> question, threshold |-> threshold,
               result |-> FindSimilarQuestion(question, threshold)]
    /\ UNCHANGED <<convVars, sessVars, users, question_cache, cache_file, peer_cache>>

(* cache_answer: the cache afterwards; a key that is present keeps its place *)
Cached(qc, question, answer, source_documents) ==
    LET entry == [key |-> HashQuestion(question), question |-> question,
                  answer |-> answer, source_documents |-> source_documents]
    IN  IF \E i \in 1..Len(qc) : qc[i].key = entry.key
        THEN [i \in 1..Len(qc) |-> IF qc[i].key = entry.key THEN entry ELSE qc[i]]
        ELSE Append(qc, entry)

(* cache_answer(question, answer, source_documents): the entry is put in
   self.question_cache and _save_cache writes the whole dictionary to the file *)
CacheAnswer(question, answer, source_documents) ==
    /\ question_cache' = Cached(question_cache, question, answer, source_documents)
    /\ cache_file' = question_cache'
    /\ ret' = [op |-> "cache_answer", question |-> question, answer |-> answer,
               source_documents |-> source_documents]
    /\ UNCHANGED <<convVars, sessVars, users, peer_cache>>

(* Another browser session starts: app.py builds its ConversationManager,
   whose __init__ loads the file into its own self.question_cache *)
PeerConstruct ==
    /\ peer_cache' = cache_file
    /\ ret' = [op |-> "peer_construct"]
    /\ UNCHANGED <<convVars, sessVars, users, question_cache, cache_file>>

(* cache_answer by the other session's manager: its own dictionary gets the
   entry and is written to the same file *)
PeerCacheAnswer(question, answer, source_documents) ==
    /\ peer_cache' = Cached(peer_cache, question, answer, source_documents)
    /\ cache_file' = peer_cache'
    /\ ret' = [op |-> "peer_cache_answer", question |-> question, answer |-> answer,
               source_documents |-> source_documents, file_before |-> cache_file]
    /\ UNCHANGED <<convVars, sessVars, users, question_cache>>

----------------------------------------------------------------------------
(* RAGSystem._parse_response_suggestions (src/src/rag_system.py).  The three
   regular-expression scans of the raw text are inputs of the model: matches
   is the content of each numbered response found by re.findall, stripped;
   parts is each piece of re.split with its label removed, stripped; words is
   text.split().  They are drawn independently, which covers every text. *)

MaxMatches == 2
MaxParts == 2
MaxWords == 3
MaxN == 3

(* a response is kept when len(content) > 20 *)
MinSuggestionLen == 20

Rep(c, k) == [i \in 1..k |-> c]

(* stripped contents: 20 characters (too short), 21 and 22 characters *)
Contents == {Rep("a", 20), Rep("a", 21), Rep("b", 22)}

Word == <<"w">>

SeqsUpTo(S, k) == UNION {[1..j -> S] : j \in 0..k}

(* the acknowledgment appended when nothing was derived *)
Generic ==
    <<"I", " ", "u", "n", "d", "e", "r", "s", "t", "a", "n", "d", " ", "y", "o", "u", "r", " ", "i", "n", "q", "u", "i", "r", "y", " ",
      "a", "n", "d", " ", "w", "i", "l", "l", " ",
      "h", "e", "l", "p", " ", "y", "o", "u", " ", "w", "i", "t", "h", " ", "t", "h", "a", "t", ".">>

Valid(content) == content # << >> /\ Len(content) > MinSuggestionLen

(* strategy 1: every numbered response that is long enough *)
NumberedResponses(matches) == SelectSeq(matches, Valid)

Contains(seq, x) == \E i \in 1..Len(seq) : seq[i] = x

(* strategy 2: the loop over parts from part i on, leaving at the break *)
RECURSIVE SplitParts(_, _, _, _)
SplitParts(parts, i, suggestions, n) ==
    IF i > Len(parts) THEN suggestions
    ELSE IF Valid(parts[i]) /\ ~Contains(suggestions, parts[i])
         THEN IF Len(suggestions) + 1 >= n
              THEN Append(suggestions, parts[i])
              ELSE SplitParts(parts, i + 1, Append(suggestions, parts[i]), n)
         ELSE SplitParts(parts, i + 1, suggestions, n)

(* strategy 3: words[start:end] of chunk i (0-based), joined *)
Chunk(words, i, n) ==
    LET chunk_size == Len(words) \div n
        start == i * chunk_size
        end == IF i < n - 1 THEN start + chunk_size ELSE Len(words)
    IN  JoinWords(SubSeq(words, start + 1, end))

NonEmpty(chunk) == chunk # << >>

WordChunks(words, n) ==
    SelectSeq([i \in 1..n |-> Chunk(words, i - 1, n)], NonEmpty)

(* what the three strategies derive, before padding and truncation *)
Derived(matches, parts, words, n) ==
    LET s1 == NumberedResponses(matches)
        s2 == IF Len(s1) < n THEN SplitParts(parts, 1, s1, n) ELSE s1
    IN  IF Len(s2) < n /\ Len(s2) = 0 THEN WordChunks(words, n) ELSE s2

(* the while loop appends only the first missing suggestion *)
EnsureCountOnce(suggestions, n) ==
    IF Len(suggestions) >= n THEN suggestions
    ELSE Append(suggestions,
                IF suggestions # << >> THEN suggestions[Len(suggestions)]
                ELSE Generic)

(* while len(suggestions) < n: append suggestions[-1], or the acknowledgment *)
EnsureCount(suggestions, n) ==
    IF Len(suggestions) >= n THEN suggestions
    ELSE suggestions \o
         [i \in 1..(n - Len(suggestions)) |->
             IF suggestions # << >> THEN suggestions[Len(suggestions)]
             ELSE Generic]

ParseResponseSuggestions(matches, parts, words, n) ==
    Take(EnsureCount(Derived(matches, parts, words, n), n), n)

(* one call of _parse_response_suggestions on the scans in ret *)
Parse ==
    /\ ret.op = "parse_input"
    /\ ret' = [op |-> "parse", matches |-> ret.matches, parts |-> ret.parts,
               words |-> ret.words, n |-> ret.n,
               result |-> ParseResponseSuggestions(ret.matches, ret.parts,
                                                   ret.words, ret.n)]
    /\ UNCHANGED <<convVars, sessVars, users, question_cache, cache_file, peer_cache>>

----------------------------------------------------------------------------
(* RAGSystem.generate_response_suggestions (src/src/rag_system.py), with the
   Retriever and the LLM as inputs: whether each raises, and the text the LLM
   returns. *)

MaxTextLen == 11
MaxPad == 2
MinAnswerLen == 10
NumSuggestions == 2

(* The LLM's texts: up to MaxTextLen letters between up to MaxPad blanks *)
Texts ==
    {Rep(" ", l) \o Rep("x", k) \o Rep(" ", r) :
        l \in 0..MaxPad, k \in 0..MaxTextLen, r \in 0..MaxPad}

(* the check on the raw text's own length *)
RejectedRaw(answer_text) ==
    answer_text = << >> \/ Len(answer_text) < MinAnswerLen

(* line 235: not answer_text or len(str(answer_text).strip()) < 10 *)
Rejected(answer_text) ==
    answer_text = << >> \/ Len(Strip(answer_text)) < MinAnswerLen

(* lines 211-285 of one call; a text without digits and blank lines gives the
   parser no numbered response and itself as the only part *)
GenerateSuggestions(retriever_raises, llm_raises, answer_text) ==
    IF retriever_raises
    THEN [raised |-> TRUE, retriever |-> 1, generator |-> 0, suggestions |-> << >>]
    ELSE IF llm_raises \/ Rejected(answer_text)
         THEN [raised |-> TRUE, retriever |-> 1, generator |-> 1, suggestions |-> << >>]
         ELSE [raised |-> FALSE, retriever |-> 1, generator |-> 1,
               suggestions |-> ParseResponseSuggestions(<< >>, <<Strip(answer_text)>>,
                                                        Split(answer_text),
                                                        NumSuggestions)]

(* one call of generate_response_suggestions on the inputs in ret *)
Generate ==
    /\ ret.op = "generate_input"
    /\ ret' = [op |-> "generate", retriever_raises |-> ret.retriever_raises,
               llm_raises |-> ret.llm_raises, answer_text |-> ret.answer_text,
               result |-> GenerateSuggestions(ret.retriever_raises, ret.llm_raises,
                                              ret.answer_text)]
    /\ UNCHANGED <<convVars, sessVars, users, question_cache, cache_file, peer_cache>>

----------------------------------------------------------------------------
(* render_chat_tab (src/src/ui/chat.py): one script run that handles a typed
   prompt or a pending inquiry.  The Retriever, the Generator and the buttons
   of the page are the environment: what each call returns and which button
   is pressed are inputs.  The thread is kept in the tables conversations and
   messages for either class of conversation manager. *)

MaxChatMessages == 3

(* a prompt is handled when len(prompt.strip()) >= 3 *)
MinPromptLen == 3

(* The class of st.session_state.conversation_manager: SessionManager builds
   src/src/conversation_management.ConversationManager unless the key is
   already there; src/app.py puts src/conversation_manager.ConversationManager
   there. *)
ManagerClasses == {"conversation_management", "conversation_manager"}

(* find_similar_question, cache_answer and get_all_threads are methods of
   src/conversation_manager.ConversationManager only *)
HasCacheApi(class) == class = "conversation_manager"

NoClient == << >>
Ann == <<"A", "n", "n">>

(* what the chat input returns, stripped; << >> when nothing was typed *)
TypedPrompts == {ReturnPolicy, <<"h", "i">>}

(* the inquiry read from an image *)
ReturnPolicyNow == ReturnPolicy \o <<" ", "n", "o", "w">>
ImagePrompts == {ReturnPolicyNow}

Suggestions2 == <<Rep("a", 21), Rep("b", 22)>>
AnswerText == <<"o", "k">>
Sources == <<"d1">>

SuggestOutcomes == {"ok", "retrieval_raises", "generation_raises", "empty_generation"}
AnswerOutcomes == {"ok", "retrieval_raises", "empty_answer"}
Clicks == {"none", "regenerate_cached", "regenerate_top", "use_1", "regenerate_bottom"}

(* a cached answer is used when its similarity is at least 0.9 *)
UseCachedAt == <<9, 10>>

(* generate_response_suggestions(question, client_name, conversation_context,
   num_suggestions = 2): the set holding what it returns, empty when it
   raises.  It raises when the retriever raises, when the LLM raises and when
   the LLM's text is empty or shorter than 10 characters; otherwise the
   parser returns num_suggestions suggestions. *)
GenerateResponseSuggestions(question, client_name, conversation_context, outcome) ==
    IF outcome = "ok"
    THEN {[suggestions |-> Suggestions2, source_documents |-> Sources,
           client_name |-> client_name, inquiry |-> question]}
    ELSE {}

(* query(question, conversation_context): the set holding what it returns,
   empty when it raises.  The LLM's text is returned as it is, empty or not. *)
Query(question, conversation_context, outcome) ==
    IF outcome = "ok"
    THEN {[answer |-> AnswerText, source_documents |-> Sources]}
    ELSE IF outcome = "empty_answer"
         THEN {[answer |-> << >>, source_documents |-> Sources]}
         ELSE {}

(* self._retriever.invoke and self.llm.invoke calls made by one call of
   generate_response_suggestions or of query *)
RetrieverCalls(outcome) == 1
GeneratorCalls(outcome) == IF outcome = "retrieval_raises" THEN 0 ELSE 1

(* st.session_state.get(key, False) of a boolean key *)
Flag(s, key) == key \in DOMAIN s /\ s[key]

(* a dictionary-valued key that holds a non-empty dictionary *)
HasDict(s, key) == key \in DOMAIN s /\ DOMAIN s[key] # {}

(* an optional value kept as a set: truthy when it holds something *)
HasValue(s, key) == key \in DOMAIN s /\ s[key] # {}

(* f"Client: {client_name}\n\nInquiry: {prompt}" *)
UserMessage(prompt, client_name) ==
    IF client_name # NoClient
    THEN <<"C", "l", "i", "e", "n", "t", ":", " ">> \o client_name
            \o <<"\n", "\n", "I", "n", "q", "u", "i", "r", "y", ":", " ">> \o prompt
    ELSE prompt

(* f"**{client_name}** asks: {prompt}" *)
DisplayMessage(prompt, client_name) ==
    IF client_name # NoClient
    THEN <<"*", "*">> \o client_name
            \o <<"*", "*", " ", "a", "s", "k", "s", ":", " ">> \o prompt
    ELSE prompt

(* session_manager.get("messages").append(...) *)
DisplayAppend(s, entry) == Set(s, "messages", Append(s["messages"], entry))

(* ids a new thread can get: uuid4 and the timestamp id are fresh *)
FreshIds ==
    {c \in ConvIds : /\ ~(\E r \in conversations : r.id = c)
                     /\ ~(\E i \in 1..Len(messages) : messages[i].conversation_id = c)}

(* fresh ids are interchangeable: one of them stands for all *)
NewThreadIds == IF FreshIds = {} THEN {} ELSE {CHOOSE c \in FreshIds : TRUE}

MaxPositionIn(msgs, cid) ==
    LET ps == {msgs[i].position :
                 i \in {j \in 1..Len(msgs) : msgs[j].conversation_id = cid}}
    IN  IF ps = {} THEN 0 ELSE CHOOSE p \in ps : \A q \in ps : q <= p

(* create_conversation_thread(cid) of either class: the table afterwards *)
ThreadRows(convs, class, user_id, cid) ==
    IF \E c \in convs : c.id = cid THEN convs
    ELSE IF HasCacheApi(class)
         THEN convs \cup {[id |-> cid, user_id |-> None, title |-> << >>]}
         ELSE IF Truthy(user_id) /\ cid \notin ListingIn(convs, user_id)
              THEN convs \cup {[id |-> cid, user_id |-> user_id, title |-> << >>]}
              ELSE convs

(* add_message: the title (topic) written for the first user message *)
TitleRows(convs, class, user_id, cid, sender, body) ==
    IF sender = "user" /\ (HasCacheApi(class) \/ Truthy(user_id))
    THEN {IF c.id = cid /\ c.title = << >>
          THEN [c EXCEPT !.title = Take(body, TitleLen)] ELSE c : c \in convs}
    ELSE convs

(* get_thread_context of either class on the tables convs and msgs *)
ContextIn(convs, msgs, class, user_id, cid) ==
    LET all == ListMessagesOf(msgs, cid)
        history == IF ~HasCacheApi(class) /\ cid \notin ListingIn(convs, user_id)
                   THEN << >>
                   ELSE IF Len(all) <= DefaultMaxMessages THEN all
                        ELSE LastSlice(all, DefaultMaxMessages)
    IN  IF history = << >> THEN << >>
        ELSE JoinLines([i \in 1..Len(history) |-> ContextLine(history[i])])

(* The state a script run works on, and the trace tr of what it did. *)
Frame(s, msgs, convs, qc, tr) ==
    [ss |-> s, messages |-> msgs, conversations |-> convs, question_cache |-> qc,
     tr |-> tr]

NewTrace(class, user_id) ==
    [op |-> "request", class |-> class, raised |-> None, outcome |-> "running",
     pending |-> {}, selected |-> {}, prompt |-> << >>, client_name |-> NoClient,
     cid |-> None, flag_read |-> FALSE, regenerate_requested |-> FALSE,
     use_cache |-> FALSE, flag_after_read |-> FALSE,
     lookup |-> FALSE, hit |-> {}, suggest |-> << >>, answer |-> << >>,
     retriever |-> 0, generator |-> 0, result |-> {}, added |-> << >>,
     cache_before |-> question_cache]

(* add_message(cid, sender, body) of either class, one manager at work *)
AddMessage(f, class, user_id, cid, sender, body, kind) ==
    [f EXCEPT
       !.conversations = TitleRows(ThreadRows(f.conversations, class, user_id, cid),
                                   class, user_id, cid, sender, body),
       !.messages = Append(f.messages,
                           MessageRow(cid, NewPosition(MaxPositionIn(f.messages, cid)),
                                      sender, body)),
       !.tr.added = Append(f.tr.added, [kind |-> kind, sender |-> sender, body |-> body])]

(* lines 345-351, 365-370: the fallback answer as the request's result *)
FallbackResultCached(fallback_result) ==
    [suggestions |-> <<fallback_result.answer>>,
     source_documents |-> fallback_result.source_documents, cached |-> TRUE]

FallbackResult(fallback_result) ==
    [suggestions |-> <<fallback_result.answer>>,
     source_documents |-> fallback_result.source_documents, cached |-> FALSE]

(* lines 323-328: the cached answer as the request's result *)
CachedResult(cached_result) ==
    [suggestions |-> <<cached_result.answer>>,
     source_documents |-> cached_result.source_documents, cached |-> TRUE]

(* the trace after one call of generate_response_suggestions *)
SuggestCalled(tr, question, client_name, context, outcome) ==
    [tr EXCEPT !.suggest = Append(@, [question |-> question, client_name |-> client_name,
                                      context |-> context, outcome |-> outcome]),
               !.retriever = @ + RetrieverCalls(outcome),
               !.generator = @ + GeneratorCalls(outcome)]

(* the trace after one call of query *)
QueryCalled(tr, question, context, outcome) ==
    [tr EXCEPT !.answer = Append(@, [question |-> question, context |-> context,
                                     outcome |-> outcome]),
               !.retriever = @ + RetrieverCalls(outcome),
               !.generator = @ + GeneratorCalls(outcome)]

(* A stage of the run acts on a frame that is still running. *)
Running(f) == f.tr.outcome = "running"

(* lines 28-31: with a current thread the page lists the threads with
   get_all_threads() *)
RenderRaises(s, class) == Truthy(Get(s, "current_thread_id")) /\ ~HasCacheApi(class)

(* line 73: a typed prompt marks the session busy (start_processing) *)
ChatInput(s, typed) ==
    IF typed # << >> THEN Set(s, "is_processing", TRUE) ELSE s

(* lines 28-93: the frame the run starts on *)
Begin(typed, class, user_id) ==
    IF RenderRaises(ss, class)
    THEN Frame(ss, messages, conversations, question_cache,
               [NewTrace(class, user_id) EXCEPT !.raised = "AttributeError",
                                                !.outcome = "crash"])
    ELSE Frame(ChatInput(ss, typed), messages, conversations, question_cache,
               NewTrace(class, user_id))

(* lines 253-270 without the clearing of the pending inquiry *)
TakePendingKeep(s) == s

(* line 270: session_manager.clear("pending_inquiry") *)
TakePending(s) == Del(s, "pending_inquiry")

(* lines 250-276: the prompt of the run, from the pending inquiry if there is
   one; the inquiry set by line 236 has a prompt of five characters or more *)
ReadInquiry(f, typed) ==
    IF ~Running(f) THEN f
    ELSE LET pending == HasDict(f.ss, "pending_inquiry")
             inquiry_data == f.ss["pending_inquiry"]
             prompt == IF pending THEN inquiry_data.prompt ELSE typed
             client_name == IF pending THEN inquiry_data.client_name ELSE NoClient
         IN  [f EXCEPT
                !.ss = IF pending THEN TakePending(f.ss) ELSE f.ss,
                !.tr.pending = IF pending THEN {inquiry_data} ELSE {},
                !.tr.prompt = prompt,
                !.tr.client_name = client_name,
                !.tr.selected = IF HasValue(f.ss, "selected_response")
                                THEN f.ss["selected_response"] ELSE {},
                !.tr.outcome = IF Len(prompt) < MinPromptLen THEN "invalid"
                               ELSE "running"]

(* lines 278-302: the thread is created if there is none, the user message is
   added to it and to the page; new_cid is the id a new thread gets, ready
   whether the RAG system has its chain *)
RecordUser(f, class, user_id, new_cid, ready) ==
    IF ~Running(f) THEN f
    ELSE LET current == Get(f.ss, "current_thread_id")
             cid == IF Truthy(current) THEN current ELSE new_cid
             f1 == IF Truthy(current) THEN [f EXCEPT !.tr.cid = cid]
                   ELSE [f EXCEPT !.ss = Set(f.ss, "current_thread_id", new_cid),
                                  !.conversations =
                                      ThreadRows(f.conversations, class, user_id, new_cid),
                                  !.tr.cid = cid]
             f2 == AddMessage(f1, class, user_id, cid, "user",
                              UserMessage(f.tr.prompt, f.tr.client_name), "user")
         IN  [f2 EXCEPT
                !.ss = DisplayAppend(f2.ss,
                          [role |-> "user",
                           content |-> DisplayMessage(f.tr.prompt, f.tr.client_name)]),
                !.tr.outcome = IF ready THEN "running" ELSE "not_ready"]

(* lines 308-310 without the reset of the flag *)
ReadRegenerateKeep(s) == s

(* lines 308-310: the regenerate flag is read and, when set, reset *)
ReadRegenerate(s) ==
    IF Flag(s, "regenerate_response") THEN Set(s, "regenerate_response", FALSE) ELSE s

(* lines 308-314 *)
ReadFlag(f) ==
    IF ~Running(f) THEN f
    ELSE [f EXCEPT !.ss = ReadRegenerate(f.ss),
                   !.tr.flag_read = TRUE,
                   !.tr.regenerate_requested = Flag(f.ss, "regenerate_response"),
                   !.tr.use_cache = Flag(f.ss, "use_cache"),
                   !.tr.flag_after_read = Flag(ReadRegenerate(f.ss), "regenerate_response")]

(* lines 314-328: the cache is consulted unless it is bypassed; a manager
   without find_similar_question raises AttributeError, which the handler of
   line 540 catches *)
Lookup(f, class, click) ==
    IF ~Running(f) \/ ~f.tr.use_cache \/ f.tr.regenerate_requested THEN f
    ELSE IF ~HasCacheApi(class)
    THEN [f EXCEPT !.tr.lookup = TRUE, !.tr.raised = "AttributeError"]
    ELSE LET cached_result == FindSimilarQuestion(f.tr.prompt, DefaultThreshold)
             used == cached_result # {}
                     /\ FracAtLeast((CHOOSE r \in cached_result : TRUE).similarity,
                                    UseCachedAt)
         IN  IF used /\ click = "regenerate_cached"
             THEN [f EXCEPT !.tr.lookup = TRUE, !.tr.hit = cached_result,
                            !.ss = Set(f.ss, "regenerate_response", TRUE),
                            !.tr.outcome = "rerun"]
             ELSE [f EXCEPT !.tr.lookup = TRUE, !.tr.hit = cached_result,
                            !.tr.result =
                                IF used
                                THEN {CachedResult(CHOOSE r \in cached_result : TRUE)}
                                ELSE {}]

(* lines 330-359 (after a cache miss) and 379-403 (the cache bypassed):
   generate_response_suggestions; its result is cached after a miss only.
   It returns two suggestions whenever it returns, so the test of line 343
   and of line 392 never sends a returned result to the fallback. *)
Suggest(f, class, user_id, so) ==
    IF ~Running(f) \/ f.tr.raised # None \/ f.tr.result # {} THEN f
    ELSE LET context == ContextIn(f.conversations, f.messages, class, user_id, f.tr.cid)
             suggested == GenerateResponseSuggestions(f.tr.prompt, f.tr.client_name,
                                                      context, so)
             tr1 == SuggestCalled(f.tr, f.tr.prompt, f.tr.client_name, context, so)
         IN  IF suggested = {} THEN [f EXCEPT !.tr = tr1]
             ELSE LET result == CHOOSE r \in suggested : TRUE
                  IN  [f EXCEPT
                         !.question_cache =
                             IF f.tr.lookup
                             THEN Cached(f.question_cache, f.tr.prompt,
                                         result.suggestions[1], result.source_documents)
                             ELSE f.question_cache,
                         !.tr = [tr1 EXCEPT !.result =
                                    {[suggestions |-> result.suggestions,
                                      source_documents |-> result.source_documents,
                                      cached |-> FALSE]}]]

(* lines 373-377, 417-421: the fallback failed too; an assistant message
   reporting the failure is added to the thread *)
BothFailedReported(f, class, user_id) ==
    LET g == AddMessage(f, class, user_id, f.tr.cid, "assistant", <<"E">>, "error")
    IN  [g EXCEPT !.ss = Set(g.ss, "is_processing", FALSE), !.tr.outcome = "terminal"]

(* lines 373-377, 417-421: the fallback failed too; stop_processing(),
   st.stop() *)
BothFailed(f, class, user_id) ==
    [f EXCEPT !.ss = Set(f.ss, "is_processing", FALSE), !.tr.outcome = "terminal"]

(* lines 360-377 and 404-421: generate_response_suggestions raised; query is
   called on the same question and context *)
Fallback(f, class, user_id, ao) ==
    IF ~Running(f) \/ f.tr.raised # None \/ f.tr.result # {} THEN f
    ELSE LET context == f.tr.suggest[Len(f.tr.suggest)].context
             answered == Query(f.tr.prompt, context, ao)
             f1 == [f EXCEPT !.tr = QueryCalled(f.tr, f.tr.prompt, context, ao)]
         IN  IF answered # {} /\ (CHOOSE r \in answered : TRUE).answer # << >>
             THEN [f1 EXCEPT !.tr.result = {FallbackResult(CHOOSE r \in answered : TRUE)}]
             ELSE BothFailed(f1, class, user_id)

(* lines 507-529: the selected response becomes an assistant message, the
   selection is cleared, st.rerun() *)
UseSelected(f, class, user_id) ==
    LET selected_response == CHOOSE r \in f.ss["selected_response"] : TRUE
        selected_idx == f.ss["selected_response_idx"]
        f1 == AddMessage(f, class, user_id, f.tr.cid, "assistant", selected_response,
                         "selected")
        s1 == DisplayAppend(f1.ss, [role |-> "assistant",
                                    content |-> selected_response,
                                    selected |-> selected_idx])
        s2 == Del(Del(s1, "selected_response"), "selected_response_idx")
        s3 == IF "current_suggestions" \in DOMAIN s2
              THEN Del(s2, "current_suggestions") ELSE s2
    IN  [f1 EXCEPT !.ss = s3, !.tr.outcome = "selected"]

(* lines 423-539: the suggestions are shown with their buttons.  The result
   holds at least one suggestion here, so lines 424-456 are never run. *)
ShowSuggestions(f, class, user_id, click) ==
    IF ~Running(f) \/ f.tr.raised # None THEN f
    ELSE LET result == CHOOSE r \in f.tr.result : TRUE
             suggestions == result.suggestions
             s1 == Set(f.ss, "current_suggestions",
                       [suggestions |-> suggestions, sources |-> result.source_documents,
                        client_name |-> f.tr.client_name, inquiry |-> f.tr.prompt])
             idx == IF click = "use_1" THEN 1 ELSE 0
         IN  IF click = "regenerate_top"
             THEN [f EXCEPT !.ss = Set(f.ss, "regenerate_response", TRUE),
                            !.tr.outcome = "rerun"]
             ELSE IF idx >= 1 /\ idx <= Len(suggestions)
             THEN [f EXCEPT !.ss = Set(Set(s1, "selected_response_idx", idx),
                                       "selected_response", {suggestions[idx]}),
                            !.tr.outcome = "rerun"]
             ELSE IF click = "regenerate_bottom"
             THEN [f EXCEPT !.ss = Set(s1, "regenerate_response", TRUE),
                            !.tr.outcome = "rerun"]
             ELSE IF HasValue(s1, "selected_response")
                     /\ Get(s1, "selected_response_idx") # 0
             THEN UseSelected([f EXCEPT !.ss = s1], class, user_id)
             ELSE [f EXCEPT !.ss = s1, !.tr.outcome = "suggestions"]

(* lines 540-564: the outer handler answers the question itself *)
OuterExcept(f, class, user_id, ao) ==
    IF ~Running(f) \/ f.tr.raised = None THEN f
    ELSE LET context == ContextIn(f.conversations, f.messages, class, user_id, f.tr.cid)
             answered == Query(f.tr.prompt, context, ao)
             f1 == [f EXCEPT !.tr = QueryCalled(f.tr, f.tr.prompt, context, ao)]
         IN  IF answered # {}
             THEN LET result == CHOOSE r \in answered : TRUE
                      f2 == AddMessage(f1, class, user_id, f.tr.cid, "assistant",
                                       result.answer, "answer")
                  IN  [f2 EXCEPT !.ss = DisplayAppend(f2.ss, [role |-> "assistant",
                                                              content |-> result.answer]),
                                 !.tr.outcome = "answered"]
             ELSE [f1 EXCEPT !.ss = DisplayAppend(f1.ss, [role |-> "assistant",
                                                          content |-> <<"E">>]),
                             !.tr.outcome = "error"]

(* Does the stage that calls generate_response_suggestions, or its fallback,
   act on frame f? *)
Generating(f) == Running(f) /\ f.tr.raised = None /\ f.tr.result = {}

(* Does line 316 find a cached answer to use? *)
CacheUsed(f, class) ==
    /\ Running(f) /\ f.tr.use_cache /\ ~f.tr.regenerate_requested /\ HasCacheApi(class)
    /\ \E r \in FindSimilarQuestion(f.tr.prompt, DefaultThreshold) :
          FracAtLeast(r.similarity, UseCachedAt)

(* One script run of the chat tab with a typed prompt or a pending inquiry:
   render_chat_tab from the thread caption on.  The environment's part is
   drawn where the run meets it: the id of a new thread, whether the RAG
   system is ready, what generate_response_suggestions and query do, and the
   button pressed on the page. *)
Request(typed) ==
    /\ typed # << >> \/ HasDict(ss, "pending_inquiry")
    /\ Len(messages) < MaxChatMessages
    /\ \E class \in {ss["conversation_manager"]} :
       \E f0 \in {Begin(typed, class, cmUser)} :
       \E f1 \in {ReadInquiry(f0, typed)} :
       \E new_cid \in (IF Running(f1) /\ ~Truthy(Get(f1.ss, "current_thread_id"))
                       THEN NewThreadIds ELSE {None}) :
       \E ready \in (IF Running(f1) THEN BOOLEAN ELSE {TRUE}) :
       \E f2 \in {RecordUser(f1, class, cmUser, new_cid, ready)} :
       \E f3 \in {ReadFlag(f2)} :
       \E click \in (IF CacheUsed(f3, class) THEN Clicks ELSE Clicks \ {"regenerate_cached"}) :
       \E f4 \in {Lookup(f3, class, click)} :
       \E so \in (IF Generating(f4) THEN SuggestOutcomes ELSE {"ok"}) :
       \E f5 \in {Suggest(f4, class, cmUser, so)} :
       \E ao \in (IF Generating(f5) \/ (Running(f5) /\ f5.tr.raised # None)
                  THEN AnswerOutcomes ELSE {"ok"}) :
       \E f6 \in {Fallback(f5, class, cmUser, ao)} :
       \E f7 \in {ShowSuggestions(f6, class, cmUser, click)} :
       \E f \in {OuterExcept(f7, class, cmUser, ao)} :
           /\ f.tr.outcome \in {"rerun", "selected", "suggestions"} \/ click = "none"
           /\ ss' = f.ss
           /\ messages' = f.messages
           /\ conversations' = f.conversations
           /\ question_cache' = f.question_cache
           /\ cache_file' = IF f.question_cache # question_cache
                             THEN f.question_cache ELSE cache_file
           /\ ret' = f.tr
    /\ UNCHANGED <<cache, pc, loc, sessions, cookies, cmUser, now, issued, val, users,
                   peer_cache>>

(* lines 136-239: an image whose text holds an inquiry of at least five
   characters is kept as the pending inquiry, st.rerun() *)
ProcessImage(prompt, client_name) ==
    /\ ~RenderRaises(ss, ss["conversation_manager"])
    /\ Len(prompt) >= 5
    /\ ss' = Set(Set(ss, "is_processing", TRUE),
                 "pending_inquiry", [prompt |-> prompt, client_name |-> client_name])
    /\ ret' = [op |-> "process_image"]
    /\ UNCHANGED <<convVars, users, question_cache, cache_file, peer_cache, sessions, cookies, cmUser, now,
                   issued, val>>

(* reset_conversation() *)
ResetConversation ==
    /\ ss' = Set(Set(Set(ss, "messages", << >>), "current_thread_id", None),
                 "regenerate_response", FALSE)
    /\ ret' = [op |-> "reset_conversation"]
    /\ UNCHANGED <<convVars, users, question_cache, cache_file, peer_cache, sessions, cookies, cmUser, now,
                   issued, val>>

(* the "Enable Answer Caching" checkbox *)
SetUseCache(value) ==
    /\ ss' = Set(ss, "use_cache", value)
    /\ ret' = [op |-> "set_use_cache"]
    /\ UNCHANGED <<convVars, users, question_cache, cache_file, peer_cache, sessions, cookies, cmUser, now,
                   issued, val>>

(* SessionManager(cookies) constructed again on a rerun *)
Construct ==
    /\ ss' = InitializeSessions(ss)
    /\ ret' = [op |-> "construct", before |-> ss]
    /\ UNCHANGED <<convVars, users, question_cache, cache_file, peer_cache, sessions, cookies, cmUser, now,
                   issued, val>>

----------------------------------------------------------------------------
(* Specifications *)

Init ==
    /\ conversations = {}
    /\ messages = << >>
    /\ cache = [m \in Managers |-> {}]
    /\ pc = [m \in Managers |-> "idle"]
    /\ loc = [m \in Managers |-> Idle]
    /\ ret = [op |-> "none"]
    /\ sessions = {}
    /\ ss = InitializeSessions(EmptyDict)
    /\ cookies = EmptyDict
    /\ cmUser = None
    /\ now = 0
    /\ issued = 0
    /\ val = ValIdle
    /\ users = {}
    /\ question_cache = << >>
    /\ cache_file = << >>
    /\ peer_cache = << >>

(* The store called directly, one call at a time. *)
NextStore ==
    \E m \in SeqManagers :
        \/ \E cid \in ConvIds, sender \in Senders, body \in ConcBodies :
             /\ OthersIdle(m) /\ Len(messages) < MaxMessages
             /\ DbAddMessageStart(m, cid, sender, body)
        \/ OthersIdle(m) /\ ReadMax(m)
        \/ OthersIdle(m) /\ Insert(m)

SpecStore == Init /\ [][NextStore]_vars

(* Conversation managers of two owners, one call at a time. *)
NextSeq ==
    \E m \in SeqManagers :
        \/ \E arg \in ConvIds \cup {None} : OthersIdle(m) /\ CreateThread(m, arg)
        \/ \E cid \in ConvIds, sender \in Senders, body \in Bodies :
             /\ OthersIdle(m) /\ Len(messages) < MaxSeqMessages
             /\ AddMessageStart(m, cid, sender, body)
        \/ OthersIdle(m) /\ ReadMax(m)
        \/ OthersIdle(m) /\ Insert(m)
        \/ OthersIdle(m) /\ CheckTitle(m)
        \/ OthersIdle(m) /\ WriteTitle(m)
        \/ \E cid \in ConvIds, limit \in 0..MaxLimit :
             OthersIdle(m) /\ GetHistory(m, cid, limit)
        \/ \E cid \in ConvIds : OthersIdle(m) /\ GetContext(m, cid)

SpecSeq == Init /\ [][NextSeq]_vars

(* Conversation managers of two owners that also delete threads. *)
NextDelete ==
    \/ NextSeq
    \/ \E m \in SeqManagers, cid \in ConvIds :
          OthersIdle(m) /\ DeleteConversation(m, cid)

SpecDelete == Init /\ [][NextDelete]_vars

(* Two sessions of one owner whose calls interleave statement by statement. *)
NextConc ==
    \E m \in ConcManagers :
        \/ \E cid \in ConvIds, sender \in Senders, body \in ConcBodies :
             /\ Len(messages) + InFlight < MaxMessages
             /\ AddMessageStart(m, cid, sender, body)
        \/ ReadMax(m)
        \/ Insert(m)
        \/ CheckTitle(m)
        \/ WriteTitle(m)

SpecConc == Init /\ [][NextConc]_vars

(* One browser session: login, validation, logout and the passing of time. *)
NextSess ==
    \/ \E status \in Statuses : LoggedIn(status)
    \/ \E token \in Tokens \cup {None} : ValidateSessions(token)
    \/ LoggedOut
    \/ Reload
    \/ Tick
    \/ Construct

SpecSess == Init /\ [][NextSess]_vars

(* A browser session that logs in and out while a second tab validates a
   token, the statements of the validation interleaved with the other steps. *)
NextRace ==
    \/ \E status \in Statuses : LoggedIn(status)
    \/ LoggedOut
    \/ Tick
    \/ \E token \in Tokens : ValFind(token)
    \/ ValCompare
    \/ ValRefresh
    \/ ValAccept
    \/ ValReject

SpecRace == Init /\ [][NextRace]_vars

(* The question cache: answers are stored and looked up. *)
NextCache ==
    \/ \E question \in Questions, a \in Answered :
          /\ \/ Len(question_cache) < MaxCache
             \/ \E i \in 1..Len(question_cache) :
                   question_cache[i].key = HashQuestion(question)
          /\ CacheAnswer(question, a.answer, a.source_documents)
    \/ \E question \in Questions, threshold \in Thresholds :
          FindSimilar(question, threshold)

SpecCache == Init /\ [][NextCache]_vars

(* The question cache of two browser sessions, each with the manager app.py
   put in its session state, over the one cache file. *)
SharedQuestions == {<<"h", "i">>, <<"H", "i">>, <<"i", " ", "h">>}

NextShared ==
    \/ \E question \in SharedQuestions, a \in Answered :
          CacheAnswer(question, a.answer, a.source_documents)
    \/ \E question \in SharedQuestions, a \in Answered :
          PeerCacheAnswer(question, a.answer, a.source_documents)
    \/ PeerConstruct
    \/ \E question \in SharedQuestions, threshold \in Thresholds :
          FindSimilar(question, threshold)

SpecShared == Init /\ [][NextShared]_vars

(* The question cache on questions that share words, so that a lookup meets
   several entries of one similarity. *)
TieQuestions ==
    {<<"a", " ", "b">>, <<"a", " ", "c">>, <<"a", " ", "d">>, <<"b", " ", "a">>}

TieThresholds == {<<0, 1>>, <<1, 3>>, DefaultThreshold}

NextTie ==
    \/ \E question \in TieQuestions, a \in Answered :
          /\ \/ Len(question_cache) < MaxCache
             \/ \E i \in 1..Len(question_cache) :
                   question_cache[i].key = HashQuestion(question)
          /\ CacheAnswer(question, a.answer, a.source_documents)
    \/ \E question \in TieQuestions, threshold \in TieThresholds :
          FindSimilar(question, threshold)

SpecTie == Init /\ [][NextTie]_vars

(* The question cache on the questions of the return-policy example. *)
NextPolicy ==
    \/ \E question \in PolicyQuestions, a \in Answered \cup {ThirtyDays} :
          /\ \/ Len(question_cache) < MaxCache
             \/ \E i \in 1..Len(question_cache) :
                   question_cache[i].key = HashQuestion(question)
          /\ CacheAnswer(question, a.answer, a.source_documents)
    \/ \E question \in PolicyQuestions, threshold \in Thresholds :
          FindSimilar(question, threshold)

SpecPolicy == Init /\ [][NextPolicy]_vars

(* generate_response_suggestions on every combination of its inputs. *)
InitGenerate ==
    /\ conversations = {}
    /\ messages = << >>
    /\ cache = [m \in Managers |-> {}]
    /\ pc = [m \in Managers |-> "idle"]
    /\ loc = [m \in Managers |-> Idle]
    /\ ret \in [op : {"generate_input"}, retriever_raises : BOOLEAN,
                llm_raises : BOOLEAN, answer_text : Texts]
    /\ sessions = {}
    /\ ss = InitializeSessions(EmptyDict)
    /\ cookies = EmptyDict
    /\ cmUser = None
    /\ now = 0
    /\ issued = 0
    /\ val = ValIdle
    /\ users = {}
    /\ question_cache = << >>
    /\ cache_file = << >>
    /\ peer_cache = << >>

NextGenerate == Generate

SpecGenerate == InitGenerate /\ [][NextGenerate]_vars

(* The suggestion parser on every combination of scan results. *)
InitParse ==
    /\ conversations = {}
    /\ messages = << >>
    /\ cache = [m \in Managers |-> {}]
    /\ pc = [m \in Managers |-> "idle"]
    /\ loc = [m \in Managers |-> Idle]
    /\ ret \in [op : {"parse_input"},
                matches : SeqsUpTo(Contents, MaxMatches),
                parts : SeqsUpTo(Contents, MaxParts),
                words : SeqsUpTo({Word}, MaxWords),
                n : 1..MaxN]
    /\ sessions = {}
    /\ ss = InitializeSessions(EmptyDict)
    /\ cookies = EmptyDict
    /\ cmUser = None
    /\ now = 0
    /\ issued = 0
    /\ val = ValIdle
    /\ users = {}
    /\ question_cache = << >>
    /\ cache_file = << >>
    /\ peer_cache = << >>

NextParse == Parse

SpecParse == InitParse /\ [][NextParse]_vars

(* The chat tab of the browser session of user u1, its manager of either
   class. *)
InitChat ==
    /\ conversations = {}
    /\ messages = << >>
    /\ cache = [m \in Managers |-> {}]
    /\ pc = [m \in Managers |-> "idle"]
    /\ loc = [m \in Managers |-> Idle]
    /\ ret = [op |-> "none"]
    /\ sessions = {}
    /\ ss \in {InitializeSessions([k \in {"conversation_manager"} |-> class]) :
                  class \in ManagerClasses}
    /\ cookies = EmptyDict
    /\ cmUser = "u1"
    /\ now = 0
    /\ issued = 0
    /\ val = ValIdle
    /\ users = {}
    /\ question_cache = << >>
    /\ cache_file = << >>
    /\ peer_cache = << >>

NextChat ==
    \/ \E typed \in TypedPrompts \cup {<< >>} : Request(typed)
    \/ \E prompt \in ImagePrompts : ProcessImage(prompt, Ann)
    \/ ResetConversation
    \/ \E value \in BOOLEAN : SetUseCache(value)

SpecChat == InitChat /\ [][NextChat]_vars

(* One conversation manager and the store under it, whose INSERT can raise. *)
NextErr ==
    \E m \in {"m1"} :
        \/ \E cid \in ConvIds, sender \in Senders \cup {"system"} :
             /\ Len(messages) < MaxSeqMessages
             /\ AddMessageStart(m, cid, sender, Hello)
        \/ \E cid \in ConvIds, sender \in Senders \cup {"system"} :
             /\ Len(messages) < MaxSeqMessages
             /\ DbAddMessageStart(m, cid, sender, Hello)
        \/ ReadMax(m)
        \/ Insert(m)
        \/ InsertRaises(m)
        \/ CheckTitle(m)
        \/ WriteTitle(m)

SpecErr == Init /\ [][NextErr]_vars

(* Registration by two callers whose create_new_user calls interleave, and
   logins against the users they create. *)
NextUsers ==
    \/ \E m \in ConcManagers, username \in Usernames \cup {""},
          password \in Passwords \cup {""} :
          /\ Cardinality(users) + InFlightUsers < MaxUsers
          /\ CreateNewUserStart(m, username, password)
    \/ \E m \in ConcManagers : CreateNewUserInsert(m)
    \/ \E username \in Usernames \cup {""}, password \in Passwords \cup {""} :
          Login(username, password)

SpecUsers == Init /\ [][NextUsers]_vars

----------------------------------------------------------------------------
(* Properties *)

IsPrefix(s, t) == Len(s) <= Len(t) /\ SubSeq(t, 1, Len(s)) = s

AllIdle == \A m \in Managers : pc[m] = "idle"

(* The last k elements of s, for 0 <= k <= Len(s). *)
LastK(s, k) == [i \in 1..k |-> s[Len(s) - k + i]]

Owns(user_id, cid) == \E c \in conversations : c.id = cid /\ c.user_id = user_id

(* C1: with one store call running at a time, the k-th message appended to a
   conversation has position k, and the call that appended it returned k: the
   positions of N appends are 1..N with no gap and no repeat. *)
C1_SequentialPositions ==
    /\ \A cid \in ConvIds :
         \A k \in 1..Len(RowsOf(messages, cid)) : RowsOf(messages, cid)[k].position = k
    /\ ret.op = "db_add_message" => ret.result = Len(RowsOf(messages, ret.cid))

C1_Witness ==
    /\ ret.op = "db_add_message" /\ ret.cid = "X" /\ ret.result = 2
    /\ Len(RowsOf(messages, "X")) = 2
    /\ Len(RowsOf(messages, "Y")) = 1

(* C2: no two messages of one conversation have the same position, also when
   the appends of two callers interleave. *)
C2_DistinctPositions ==
    \A i, j \in 1..Len(messages) :
        (i # j /\ messages[i].conversation_id = messages[j].conversation_id)
            => messages[i].position # messages[j].position

(* C3: when no add_message call is running, a thread that holds a user-role
   message has as its title the first 100 characters of its earliest user-role
   message, and a thread that holds none has no title. *)
C3_TitleFromFirstUserMessage ==
    AllIdle =>
        \A c \in conversations :
            LET asked == SelectSeq(ListMessages(c.id), LAMBDA r : r.sender = "user")
            IN  IF asked = << >>
                THEN c.title = << >>
                ELSE c.title = Take(asked[1].message, TitleLen)

(* C4: once a conversation has a title, no step changes it. *)
C4_TitleWrittenOnce ==
    [][\A c \in conversations :
          c.title # << >> => \E d \in conversations' : d.id = c.id /\ d.title = c.title]_vars

(* C5, as stated: every create_thread(id) of an owner returns id, leaves exactly
   one row with that id in the owner's listing and leaves an existing row with
   that id as it was. *)
C5_OneRowInOwnersListing ==
    [][\A m \in SeqManagers, id \in ConvIds :
          CreateThread(m, id) =>
              /\ ret'.result = id
              /\ Cardinality({c \in conversations' : c.id = id /\ c.user_id = UserOf(m)}) = 1
              /\ \A c \in conversations : c.id = id => c \in conversations']_vars

(* C5, amended: every create_thread(id) of an owner returns id and leaves
   exactly one row with that id in the table; a call that finds a row with
   that id changes nothing in the table, whoever owns the row; a call that
   finds none adds one untitled row of the caller; and the row is in the
   caller's listing unless another owner held the id before the call. *)
C5_IdempotentCreate ==
    [][\A m \in SeqManagers, id \in ConvIds :
          CreateThread(m, id) =>
              /\ ret'.result = id
              /\ Cardinality({c \in conversations' : c.id = id}) = 1
              /\ (\E c \in conversations : c.id = id) => conversations' = conversations
              /\ ~(\E c \in conversations : c.id = id) =>
                    conversations' = conversations
                        \cup {[id |-> id, user_id |-> UserOf(m), title |-> << >>]}
              /\ (\A c \in conversations : c.id = id => c.user_id = UserOf(m))
                    => /\ id \in cache'[m]
                       /\ Cardinality({c \in conversations' :
                                         c.id = id /\ c.user_id = UserOf(m)}) = 1]_vars

(* A second create_thread("X") by the owner of a thread that has a title. *)
C5_Witness ==
    /\ ret.op = "create_thread" /\ ret.arg = "X" /\ ret.result = "X"
    /\ \E c \in conversations : c.id = "X" /\ c.user_id = UserOf(ret.m) /\ c.title # << >>

(* C6: no step removes, alters or reorders a message: the ordered message list
   of every conversation before a step is a prefix of the list after it. *)
C6_AppendOnly ==
    [][\A cid \in ConvIds :
          IsPrefix(ListMessagesOf(messages, cid), ListMessagesOf(messages', cid))]_vars

(* C7: get_history and get_context_text of a manager return the empty sequence
   for every id that no conversation of the manager's owner has, whatever
   messages are stored under that id. *)
C7_NoHistoryOfOthers ==
    /\ \A m \in SeqManagers, cid \in ConvIds, limit \in 0..MaxLimit :
         ~Owns(UserOf(m), cid) =>
            /\ History(m, cid, limit) = << >>
            /\ ThreadContext(m, cid) = << >>
    /\ (ret.op \in {"get_history", "get_context"} /\ ~Owns(UserOf(ret.m), ret.cid))
         => ret.result = << >>

(* get_history returned nothing for another owner's thread that holds messages. *)
C7_Witness ==
    /\ ret.op = "get_history" /\ ret.result = << >>
    /\ \E c \in conversations : c.id = ret.cid /\ c.user_id # UserOf(ret.m)
    /\ Len(ListMessages(ret.cid)) > 0

(* C8: for a thread in the caller's listing that holds M messages,
   get_history(id, limit) returns the last min(M, limit) messages in ascending
   position order, and get_context_text renders the last min(M, 10), one
   prefixed line each. *)
C8_LastMessages ==
    [][\A m \in SeqManagers, cid \in ConvIds :
          LET all == ListMessages(cid)
              shown(k) == LastK(all, Min(Len(all), k))
          IN  Owns(UserOf(m), cid) =>
                /\ \A limit \in 0..MaxLimit :
                     GetHistory(m, cid, limit) => ret'.result = shown(limit)
                /\ GetContext(m, cid) =>
                     ret'.result =
                        JoinLines([i \in 1..Len(shown(DefaultMaxMessages)) |->
                                     ContextLine(shown(DefaultMaxMessages)[i])])]_vars

(* C9: validate(token) of a token whose session exists and has not expired
   returns true and sets the expiry to now + SESSION_TIMEOUT; and while only
   time passes after it, the session stays valid at every time before the
   renewed expiry. *)
C9_SlidingExpiry ==
    [][/\ \A t \in Tokens :
            (SessionLive(t) /\ ValidateSessions(t)) =>
                /\ ret'.result = "True"
                /\ \E row \in sessions' :
                     row.token = t /\ row.expires_at = now + SESSION_TIMEOUT
                /\ Cardinality({row \in sessions' : row.token = t}) = 1
       /\ (ret.op = "validate" /\ ret.result = "True" /\ Tick
             /\ now' < ret.at + SESSION_TIMEOUT)
            => \E row \in sessions' : row.token = ret.token /\ now' < row.expires_at]_vars

(* A validation at a later time than the login renewed the expiry. *)
C9_Witness ==
    /\ ret.op = "validate" /\ ret.result = "True" /\ ret.at > 0
    /\ \E row \in sessions :
         row.token = ret.token /\ row.expires_at = ret.at + SESSION_TIMEOUT
    /\ now > ret.at

(* C10: validate(token) of a token that has no session or whose session has
   expired does not report it valid, and afterwards no session row of that
   token exists. *)
C10_PurgedOnRead ==
    [][\A t \in Tokens :
          (~SessionLive(t) /\ ValidateSessions(t)) =>
              /\ ret'.result # "True"
              /\ {row \in sessions' : row.token = t} = {}]_vars

(* The tokens create_session has handed out so far. *)
IssuedTokens == {TokenNames[i] : i \in 1..issued}

TokensOf(tbl) == {row.token : row \in tbl}

(* C11: a token whose session row has been deleted stays deleted: every later
   validate(token) returns false, no step brings a row of that token back,
   and only a login adds a session row, for a token never handed out before. *)
C11_DeletedIsTerminal ==
    [][/\ \A t \in IssuedTokens \ TokensOf(sessions) :
            /\ ValidateSessions(t) => ret'.result = "False"
            /\ t \notin TokensOf(sessions')
       /\ TokensOf(sessions') \ TokensOf(sessions) # {} =>
            /\ \E status \in Statuses : LoggedIn(status)
            /\ TokensOf(sessions') \ TokensOf(sessions) = {TokenNames[issued + 1]}]_vars

(* C12: once logout has deleted the session of a token, a validate(token) of
   another tab that was under way does not make it usable again: no row of
   the token comes back, the validation does not end reporting the token
   valid, and the cookie does not get the token back. *)
C12_NoStaleExtension ==
    [][\A t \in IssuedTokens \ TokensOf(sessions) :
          /\ t \notin TokensOf(sessions')
          /\ (val.token = t /\ val.pc # "idle" /\ val'.pc = "idle")
                => val'.result # "True"
          /\ Get(cookies, "session_token") # t
                => Get(cookies', "session_token") # t]_vars

(* What C13 says of the state after a logout of the session whose in-memory
   token is tok. *)
LoggedOutOf(tok) ==
    /\ tok \notin TokensOf(sessions')
    /\ Get(ss', "session_token") = None
    /\ Get(ss', "user_id") = None
    /\ Truthy(tok) => Get(cookies', "session_token") # tok

(* C13: a logout, by logged_out() or by the logout_current_session() that a
   failed validation runs, deletes the session row of the in-memory token
   whether or not it has expired, and afterwards the in-memory session_token
   and user_id are absent or None and the cookie does not carry the token. *)
C13_LogoutClears ==
    [][/\ LoggedOut => LoggedOutOf(Get(ss, "session_token"))
       /\ \A t \in Tokens :
            (~SessionLive(t) /\ ValidateSessions(t))
                => LoggedOutOf(Get(ss, "session_token"))]_vars

(* C14: after logged_out(), from any state, the authenticated flag is false
   and the current thread id, the message list, the busy flag and the
   regenerate flag are present with their initial default values. *)
C14_StateResetOnLogout ==
    [][LoggedOut =>
          \A k \in {"authenticated", "current_thread_id", "messages",
                    "is_processing", "regenerate_response"} :
              k \in DOMAIN ss' /\ ss'[k] = Defaults[k]]_vars

(* C15: a login with a username that does not exist and a login with a wrong
   password both get None from the credential check, create no session row
   and change no session state; a session row is created, and a token
   yielded, only by a login whose username exists with that password. *)
C15_FailedLoginUniform ==
    [][\A username \in Usernames \cup {""}, password \in Passwords \cup {""} :
          Login(username, password) =>
              IF \E r \in users : r.username = username
                                  /\ r.password_hash = HashPassword(password)
              THEN /\ ret'.op = "logged_in"
                   /\ ret'.token \in TokensOf(sessions') \ TokensOf(sessions)
              ELSE /\ GetUserCredentials(username, password) = {}
                   /\ ret'.result = None /\ ret'.token = None
                   /\ UNCHANGED <<sessions, ss, cookies, cmUser, issued>>]_vars

(* A login with the wrong password of an existing user was refused after a
   login with an unknown username had been possible too. *)
C15_Witness ==
    /\ ret.op = "login" /\ ret.result = None
    /\ \E r \in users : r.username = ret.username
    /\ \E u \in Usernames : SelectUser(u) = {}

(* C16: create_new_user with a username that exists returns None and leaves
   the users table unchanged, whether the existence check or the insert finds
   it, and no two user rows ever share a username, also when two calls for
   one new username interleave between the check and the insert. *)
C16_UniqueUsernames ==
    [][/\ \A r1, r2 \in users' : r1.username = r2.username => r1 = r2
       /\ \A m \in ConcManagers :
            (CreateNewUserInsert(m) /\ SelectUser(loc[m].username) # {})
                => users' = users /\ ret'.result = None
       /\ \A m \in ConcManagers, username \in Usernames, password \in Passwords :
            (CreateNewUserStart(m, username, password) /\ SelectUser(username) # {})
                => users' = users /\ ret'.result = None /\ pc'[m] = "idle"]_vars

(* The second of two interleaved registrations of one username failed at its
   insert. *)
C16_Witness ==
    /\ ret.op = "create_new_user" /\ ret.stage = "insert" /\ ret.result = None
    /\ \E r \in users : r.username = ret.username

(* C17: every stored message's conversation_id is the id of a conversation
   row: the store's add_message inserts nothing under an id that has none. *)
C17_MessagesReferToConversation ==
    \A i \in 1..Len(messages) :
        \E c \in conversations : c.id = messages[i].conversation_id

(* C18: when add_message of a manager gets an id that is not in the manager's
   listing, then once the message is stored a conversation with that id is in
   the caller's listing, owned by the caller, and the message is the row at
   position 1 of that conversation. *)
C18_AutoCreate ==
    [][\A m \in SeqManagers :
          (Insert(m) /\ loc[m].created) =>
              /\ loc[m].cid \in ListingIn(conversations', UserOf(m))
              /\ \E c \in conversations' : c.id = loc[m].cid /\ c.user_id = UserOf(m)
              /\ messages'[Len(messages')].conversation_id = loc[m].cid
              /\ messages'[Len(messages')].position = 1]_vars

(* C19: when the store's INSERT raises while add_message of the manager
   persists a message, the manager does not go on with the call, and the call
   ends raising the error the store raised. *)
C19_StoreErrorPropagates ==
    /\ \A m \in Managers : pc[m] \in {"check", "write"} => ~loc[m].unbound
    /\ (ret.op = "add_message" /\ "raised" \in DOMAIN ret) => ret.raised = ret.caught

(* Lowercasing and collapsing each whitespace run to one space, as the cache
   key derivation is described; whitespace at either end is not counted. *)
RECURSIVE CollapseRuns(_, _)
CollapseRuns(s, inRun) ==
    IF s = << >> THEN << >>
    ELSE IF IsSpace(Head(s))
         THEN (IF inRun THEN << >> ELSE <<" ">>) \o CollapseRuns(Tail(s), TRUE)
         ELSE <<Head(s)>> \o CollapseRuns(Tail(s), FALSE)

SameQuestion(q1, q2) ==
    Strip(CollapseRuns(Lower(q1), FALSE)) = Strip(CollapseRuns(Lower(q2), FALSE))

(* C20: after store(q, a, s), and until another store of a question with the
   same normalization, find_similar(q') returns for every q' that equals q
   after lowercasing and collapsing whitespace runs one hit with similarity 1
   and the answer a and sources s, whatever the threshold and whatever other
   entries the cache holds. *)
C20_ExactHit ==
    /\ \A question \in Questions, threshold \in Thresholds :
         \A i \in 1..Len(question_cache) :
             SameQuestion(question_cache[i].question, question) =>
                 /\ Cardinality(FindSimilarQuestion(question, threshold)) = 1
                 /\ \A hit \in FindSimilarQuestion(question, threshold) :
                      /\ hit.similarity[1] = hit.similarity[2]
                      /\ hit.answer = question_cache[i].answer
                      /\ hit.source_documents = question_cache[i].source_documents
    /\ ret.op = "find_similar" =>
         ret.result = FindSimilarQuestion(ret.question, ret.threshold)
    /\ ret.op = "cache_answer" =>
         \E i \in 1..Len(question_cache) :
             /\ question_cache[i].question = ret.question
             /\ question_cache[i].answer = ret.answer
             /\ question_cache[i].source_documents = ret.source_documents

(* A lookup written with other case and spacing than the stored question hit
   the second of two entries, whose words the first entry has too. *)
C20_Witness ==
    /\ ret.op = "find_similar" /\ ret.threshold = <<1, 1>>
    /\ Len(question_cache) = 2
    /\ question_cache[2].question # ret.question
    /\ SameQuestion(question_cache[2].question, ret.question)
    /\ WordSet(question_cache[1].question) = WordSet(ret.question)
    /\ question_cache[1].answer # question_cache[2].answer
    /\ \E hit \in ret.result : hit.answer = question_cache[2].answer

(* The cached entries a lookup can match by word overlap, and the greatest
   similarity among them. *)
Scored(question) ==
    {i \in 1..Len(question_cache) : WordSet(question_cache[i].question) # {}}

SimilarityTo(question, i) ==
    Jaccard(WordSet(question), WordSet(question_cache[i].question))

NoExactKey(question) ==
    \A i \in 1..Len(question_cache) : question_cache[i].key # HashQuestion(question)

(* C21: with no exact-key entry, find_similar(question, threshold) is None
   exactly when no cached entry with a non-empty token set has a Jaccard
   similarity >= threshold, and otherwise it is an entry of the greatest
   similarity among the cached entries, with that similarity reported. *)
C21_BestJaccard ==
    \A question \in PolicyQuestions, threshold \in Thresholds :
        NoExactKey(question) =>
            LET qualifying == {i \in Scored(question) :
                                 FracAtLeast(SimilarityTo(question, i), threshold)}
                found == FindSimilarQuestion(question, threshold)
            IN  /\ found = {} <=> qualifying = {}
                /\ \A hit \in found :
                     \E i \in Scored(question) :
                         /\ hit = Hit(question_cache[i], SimilarityTo(question, i))
                         /\ \A j \in Scored(question) :
                              FracAtLeast(SimilarityTo(question, i),
                                          SimilarityTo(question, j))

(* The cache holds only "What is your return policy?" -> "30 days". *)
OnlyReturnPolicy ==
    /\ Len(question_cache) = 1
    /\ question_cache[1].question = ReturnPolicy
    /\ question_cache[1].answer = "30 days"

(* C22, as stated: with only that entry and the default threshold,
   find_similar("what is the return policy") returns the cached answer with a
   similarity of at least 0.8 and find_similar("What is your shipping
   policy?") returns None. *)
C22_PolicyExample ==
    OnlyReturnPolicy =>
        /\ \E hit \in FindSimilarQuestion(TheReturnPolicy, DefaultThreshold) :
             hit.answer = "30 days" /\ FracAtLeast(hit.similarity, DefaultThreshold)
        /\ FindSimilarQuestion(ShippingPolicy, DefaultThreshold) = {}

(* C22, amended: with only that entry and the default threshold,
   find_similar("what is the return policy") returns None, its similarity
   with the cached question being 3/7; find_similar("What is your shipping
   policy?") returns None, the similarity being 4/6; and the cached question
   written in other case and spacing returns the cached answer with
   similarity 1. *)
C22_PolicyExampleJaccard ==
    OnlyReturnPolicy =>
        /\ FindSimilarQuestion(TheReturnPolicy, DefaultThreshold) = {}
        /\ SimilarityTo(TheReturnPolicy, 1) = <<3, 7>>
        /\ FindSimilarQuestion(ShippingPolicy, DefaultThreshold) = {}
        /\ SimilarityTo(ShippingPolicy, 1) = <<4, 6>>
        /\ FindSimilarQuestion(ReturnPolicySpaced, DefaultThreshold)
             = {Hit(question_cache[1], <<1, 1>>)}
        /\ (ret.op = "find_similar" /\ ret.threshold = DefaultThreshold
              /\ ret.question \in {TheReturnPolicy, ShippingPolicy})
             => ret.result = {}

(* find_similar("what is the return policy") was answered from that cache. *)
C22_Witness ==
    /\ OnlyReturnPolicy
    /\ ret.op = "find_similar" /\ ret.question = TheReturnPolicy
    /\ ret.threshold = DefaultThreshold

(* C23: for every raw text and every n >= 1 the parser returns exactly n
   suggestions, each a non-empty string: the first n of what the strategies
   derived when they derived at least n, and otherwise what they derived
   followed by copies of the last derived suggestion, or n copies of the
   generic acknowledgment when nothing was derived. *)
C23_ExactlyN ==
    ret.op = "parse" =>
        LET d == Derived(ret.matches, ret.parts, ret.words, ret.n)
            r == ret.result
        IN  /\ Len(r) = ret.n
            /\ \A i \in 1..Len(r) : r[i] # << >>
            /\ Len(d) >= ret.n => r = Take(d, ret.n)
            /\ Len(d) < ret.n =>
                  /\ Take(r, Len(d)) = d
                  /\ \A i \in (Len(d) + 1)..ret.n :
                        r[i] = IF d # << >> THEN d[Len(d)] ELSE Generic

(* one response derived, three asked for: the response is repeated *)
C23_Witness ==
    /\ ret.op = "parse"
    /\ ret.n = 3
    /\ Len(Derived(ret.matches, ret.parts, ret.words, ret.n)) = 1
    /\ ret.result[1] = ret.result[3]
    /\ ret.result[1] # Generic

(* the one call of generate_response_suggestions of the request failed *)
SuggestFailed == Len(ret.suggest) = 1 /\ ret.suggest[1].outcome # "ok"

(* the one call of generate_response_suggestions of the request returned *)
SuggestSucceeded == Len(ret.suggest) = 1 /\ ret.suggest[1].outcome = "ok"

(* C24: whenever suggest fails in a request (the retriever raises, the
   generator raises, or the generation is rejected as empty), answer is
   invoked once with the same question and conversation context, and when it
   returns an answer the request's result is a list of exactly one
   suggestion, the answer text, marked cached = false. *)
C24_FallbackFirstHop ==
    (ret.op = "request" /\ SuggestFailed) =>
        /\ Len(ret.answer) = 1
        /\ ret.answer[1].question = ret.suggest[1].question
        /\ ret.answer[1].question = ret.prompt
        /\ ret.answer[1].context = ret.suggest[1].context
        /\ ret.answer[1].outcome = "ok" =>
              /\ Cardinality(ret.result) = 1
              /\ \A result \in ret.result :
                    /\ result.suggestions = <<AnswerText>>
                    /\ result.cached = FALSE

(* the generation was rejected as empty and the fallback answered *)
C24_Witness ==
    /\ ret.op = "request"
    /\ SuggestFailed
    /\ ret.suggest[1].outcome = "empty_generation"
    /\ ret.suggest[1].context # << >>
    /\ ret.answer[1].outcome = "ok"
    /\ ret.outcome = "suggestions"

(* C25: when both suggest and the fallback answer fail, the request ends in a
   terminal failure, no assistant message is added to the thread, and the
   user message recorded before the generation is the thread's last
   message. *)
C25_TerminalFailure ==
    (ret.op = "request" /\ SuggestFailed /\ Len(ret.answer) = 1
        /\ ret.answer[1].outcome # "ok") =>
        LET thread == ListMessagesOf(messages, ret.cid)
        IN  /\ ret.outcome = "terminal"
            /\ \A i \in 1..Len(ret.added) : ret.added[i].sender # "assistant"
            /\ thread # << >>
            /\ thread[Len(thread)] =
                  [sender |-> "user",
                   message |-> UserMessage(ret.prompt, ret.client_name)]

(* both calls failed on the second message of a thread *)
C25_Witness ==
    /\ ret.op = "request"
    /\ SuggestFailed
    /\ Len(ret.answer) = 1
    /\ ret.answer[1].outcome = "retrieval_raises"
    /\ Len(ListMessagesOf(messages, ret.cid)) = 2
    /\ ret.outcome = "terminal"

(* C26: on every path of one request the Retriever is invoked at most once
   and the Generator at most twice. *)
C26_OneRetrieval ==
    ret.op = "request" => ret.retriever <= 1 /\ ret.generator <= 2

(* C27: after every request in which suggest succeeds, the cache bypassed or
   not, the cache holds an entry keyed by the question whose answer is the
   first suggestion; a request in which suggest did not succeed leaves the
   cache as it was. *)
C27_CachedAfterSuggest ==
    ret.op = "request" =>
        /\ SuggestSucceeded =>
              \E i \in 1..Len(question_cache) :
                 /\ question_cache[i].key = HashQuestion(ret.prompt)
                 /\ question_cache[i].question = ret.prompt
                 /\ question_cache[i].answer = Suggestions2[1]
        /\ ~SuggestSucceeded => question_cache = ret.cache_before

(* C28: a request that starts with the regenerate flag set, or with caching
   disabled, does not consult the cache and invokes suggest; the flag is
   false once the request has read it; a request that starts with the flag
   false and caching enabled consults the cache, and so does the request
   that follows a regenerated one. *)
C28_BypassOneShot ==
    /\ [](ret.op = "request" /\ ret.flag_read =>
            /\ (ret.regenerate_requested \/ ~ret.use_cache) =>
                  ~ret.lookup /\ Len(ret.suggest) = 1
            /\ (~ret.regenerate_requested /\ ret.use_cache) => ret.lookup
            /\ ~ret.flag_after_read
            /\ ret.outcome # "rerun" => ~Flag(ss, "regenerate_response"))
    /\ [][(/\ ret.op = "request" /\ ret.flag_read /\ ret.regenerate_requested
           /\ ret.outcome # "rerun"
           /\ Flag(ss, "use_cache")
           /\ ret'.op = "request" /\ ret'.flag_read
           /\ messages' # messages)
          => ret'.lookup /\ ~ret'.regenerate_requested]_vars

(* a regenerated request whose question has an exact entry in the cache *)
C28_Witness ==
    /\ ret.op = "request"
    /\ ret.flag_read /\ ret.regenerate_requested /\ ret.use_cache
    /\ \E i \in 1..Len(ret.cache_before) :
          ret.cache_before[i].key = HashQuestion(ret.prompt)
    /\ ~ret.lookup
    /\ SuggestSucceeded

(* the messages a request added for a selected response *)
SelectedAdded ==
    {i \in 1..Len(ret.added) : ret.added[i].kind = "selected"}

(* C29: the request that reads a pending inquiry clears it, on every path and
   before the generation, so no later request reads it again; a selected
   response is added to the thread as an assistant message at most once, and
   then the selected-response fields are cleared. *)
C29_OneShot ==
    ret.op = "request" =>
        /\ ret.pending # {} => ~HasDict(ss, "pending_inquiry")
        /\ Cardinality(SelectedAdded) <= 1
        /\ \A i \in SelectedAdded :
              /\ ret.selected = {ret.added[i].body}
              /\ ret.added[i].sender = "assistant"
              /\ "selected_response" \notin DOMAIN ss
              /\ "selected_response_idx" \notin DOMAIN ss
        /\ ret.selected = {} => SelectedAdded = {}

(* a request that read a pending inquiry, generated, and added the response
   selected earlier *)
C29_Witness ==
    /\ ret.op = "request"
    /\ ret.pending # {}
    /\ ret.client_name = Ann
    /\ Len(ret.suggest) = 1
    /\ SelectedAdded # {}

(* C30: after the first _initialize_sessions a further call, as made by a
   second SessionManager construction, leaves every field of the session
   state as it is, whatever was set or deleted in between. *)
C30_InitializeOnce ==
    ret.op = "construct" => ss = ret.before

(* a construction after a login, and one after keys were deleted *)
C30_Witness ==
    /\ ret.op = "construct"
    /\ \E k \in DOMAIN Defaults : k \notin DOMAIN ss

(* The entries of qc whose key is not that of question. *)
OtherEntries(qc, question) ==
    {qc[i] : i \in {j \in 1..Len(qc) : qc[j].key # HashQuestion(question)}}

Entries(qc) == {qc[i] : i \in 1..Len(qc)}

(* C31: the Answer Cache never evicts: a store call, by whichever session's
   manager, leaves the saved cache with one entry per key, the stored key
   carrying the answer just stored, and with every entry of every other key
   that it held before the call. *)
C31_NeverEvicts ==
    [][ret'.op \in {"cache_answer", "peer_cache_answer"} =>
          /\ \A i, j \in 1..Len(cache_file') :
                cache_file'[i].key = cache_file'[j].key => i = j
          /\ \E e \in Entries(cache_file') :
                /\ e.key = HashQuestion(ret'.question)
                /\ e.answer = ret'.answer
          /\ OtherEntries(cache_file, ret'.question) \subseteq Entries(cache_file')]_vars

(* C32: in the scan of find_similar (no entry has the key of the question),
   when several cached entries reach the same greatest qualifying similarity
   the hit is the one that comes first in the cache's insertion order: every
   earlier entry is strictly less similar, no later one is more similar. *)
C32_TieBreakFirst ==
    (ret.op = "find_similar" /\ NoExactKey(ret.question)) =>
        \A hit \in ret.result :
            \E i \in Scored(ret.question) :
                /\ hit = Hit(question_cache[i], SimilarityTo(ret.question, i))
                /\ FracAtLeast(SimilarityTo(ret.question, i), ret.threshold)
                /\ \A j \in Scored(ret.question) :
                     /\ FracAtLeast(SimilarityTo(ret.question, i),
                                    SimilarityTo(ret.question, j))
                     /\ j < i => FracGreater(SimilarityTo(ret.question, i),
                                             SimilarityTo(ret.question, j))

(* A lookup met two entries with different answers and the same similarity
   1/3, and returned the first. *)
C32_Witness ==
    /\ ret.op = "find_similar" /\ NoExactKey(ret.question)
    /\ Len(question_cache) = 2
    /\ SimilarityTo(ret.question, 1) = <<1, 3>>
    /\ SimilarityTo(ret.question, 2) = <<1, 3>>
    /\ question_cache[1].answer # question_cache[2].answer
    /\ ret.result = {Hit(question_cache[1], <<1, 3>>)}

(* C33, as stated: a call invokes the Generator exactly once, returns no
   suggestions whenever the raw text is empty or shorter than 10 characters,
   and never rejects a text of 10 or more characters. *)
C33_RawLength ==
    ret.op = "generate" =>
        /\ ret.result.generator = 1
        /\ (~ret.retriever_raises /\ ~ret.llm_raises) =>
              (ret.result.raised <=> RejectedRaw(ret.answer_text))
        /\ ret.result.raised => ret.result.suggestions = << >>

(* C33, amended: a call whose retrieval succeeded invokes the Generator
   exactly once (a call whose retrieval raised, not at all); when the
   Generator returned a text, the call fails, returning no suggestions,
   exactly when the text is empty or has fewer than 10 characters once the
   whitespace at its ends is stripped, and otherwise it returns
   num_suggestions suggestions. *)
C33_StrippedLength ==
    ret.op = "generate" =>
        /\ ret.result.generator = IF ret.retriever_raises THEN 0 ELSE 1
        /\ (~ret.retriever_raises /\ ~ret.llm_raises) =>
              /\ ret.result.raised <=>
                    (ret.answer_text = << >> \/ Len(Strip(ret.answer_text)) < 10)
              /\ ~ret.result.raised => Len(ret.result.suggestions) = NumSuggestions
        /\ ret.result.raised => ret.result.suggestions = << >>

(* A text of 11 characters, 9 of them between blanks, was rejected after one
   Generator call. *)
C33_Witness ==
    /\ ret.op = "generate" /\ ~ret.retriever_raises /\ ~ret.llm_raises
    /\ Len(ret.answer_text) = 11 /\ Len(Strip(ret.answer_text)) = 9
    /\ ret.result.raised /\ ret.result.generator = 1

(* C34: delete_thread(id) on a thread the caller owns removes it: afterwards
   the id is not in the caller's listing, which is also what makes
   get_history(id) return the empty sequence; on an id the caller does not
   own it changes nothing. *)
C34_DeleteRemoves ==
    [][\A m \in SeqManagers, cid \in ConvIds :
          DeleteConversation(m, cid) =>
              IF cid \in ListingIn(conversations, UserOf(m))
              THEN cid \notin ListingIn(conversations', UserOf(m))
              ELSE conversations' = conversations /\ messages' = messages]_vars

(* C35: thread ownership isolates writes: a step of a call made through the
   manager of one owner, create_thread and add_message with any id, appends
   no message to a conversation of another owner and leaves its title as it
   is. *)
C35_WriteIsolation ==
    [][\A c \in conversations :
          (\A m \in SeqManagers :
              (pc[m] # "idle" \/ pc'[m] # "idle") => UserOf(m) # c.user_id)
          => /\ RowsOf(messages', c.id) = RowsOf(messages, c.id)
             /\ \E c2 \in conversations' :
                   c2.id = c.id /\ c2.user_id = c.user_id /\ c2.title = c.title]_vars

(* C36: when persisting the message fails inside add_message, the rest of the
   call has no effect on the thread: no message is added and the title of the
   conversation is not written. *)
C36_FailedPersistNoEffect ==
    [][\A m \in Managers :
          (pc[m] \in {"check", "write"} /\ loc[m].unbound /\ pc'[m] # pc[m])
          => /\ messages' = messages
             /\ conversations' = conversations]_vars

(* C37: the busy flag is always released: once a request that set it has
   finished, having shown suggestions (generated, taken from the cache, or
   the fallback answer) or having failed terminally, is_processing is
   false. *)
C37_BusyReleased ==
    (ret.op = "request" /\ ret.pending = {}
       /\ ret.outcome \in {"suggestions", "terminal"})
    => ~Flag(ss, "is_processing")

(* C38: a request served from the Answer Cache invokes neither the Retriever
   nor the Generator and shows exactly one suggestion, the cached answer,
   marked cached; and a request that shows suggestions is served from the
   cache exactly when the cache was consulted and find_similar returned a hit
   whose similarity reaches the cache-similarity threshold (0.8). *)
C38_ServedFromCache ==
    (ret.op = "request" /\ ret.outcome = "suggestions") =>
        LET served == \E r \in ret.result : r.cached
        IN  /\ served =>
                  /\ ret.retriever = 0 /\ ret.generator = 0
                  /\ \A r \in ret.result :
                        /\ Len(r.suggestions) = 1
                        /\ \E h \in ret.hit : r.suggestions[1] = h.answer
            /\ served <=>
                  (ret.lookup /\ \E h \in ret.hit :
                                    FracAtLeast(h.similarity, DefaultThreshold))

============================================================================
